---- MODULE Spec2Model ----
(***************************************************************************)
(* A model of the community store backend: the Cart and PurchaseHistory    *)
(* aggregates (Cart.cpp, PurchaseHistory.cpp), the request handlers of     *)
(* Server.cpp over the in-process maps and over the document store         *)
(* (MongoDBService.cpp), and the validators of SettingsService.cpp.        *)
(*                                                                         *)
(* std::string values that the code trims, lowercases, measures or         *)
(* concatenates are sequences of one-character strings.  unsigned int      *)
(* quantities are 32 bits wide and are kept as <<hi, lo>>, two 16-bit      *)
(* halves.  double prices are kept as whole cents.                         *)
(***************************************************************************)
EXTENDS Integers, Sequences, FiniteSets, TLC

VARIABLES
  cart,       \* CartSpec: Cart::items of the Cart under test
  cartRet,    \* CartSpec: the last Cart call and what it returned
  adds,       \* CartSpec: the items passed to addItem, while nothing else was called
  nOps,       \* CartSpec: number of Cart calls made
  connected,  \* MongoDBService::connected of mongoService, set by Server::Server
  users,      \* Server.cpp: std::map users, username -> User
  tokens,     \* Server.cpp: std::map tokens, token -> userId
  dbUsers,    \* the "users" collection of the document store, in insertion order
  dbOrders,   \* the "orders" collection
  dbTokens,   \* the "tokens" collection
  now,        \* time(nullptr), in seconds
  resp,       \* the response to the last request
  memServer,  \* BackendSpec: a Server without MongoDB, its store and last response
  docServer,  \* BackendSpec: a Server with MongoDB, given the same requests
  threads,    \* ServiceSpec: the createUser call each request thread is in
  call,       \* ServiceSpec: the last MongoDBService call and what it returned
  purchaseHistory,  \* HistorySpec: PurchaseHistory::purchases of the history under test
  inventory,  \* PurchaseSpec: PurchaseService::inventory
  balance,    \* PurchaseSpec: the caller's userBalance, in cents
  probe       \* the last call of a service under test, its arguments and result

cartVars == <<cart, cartRet, adds, nOps>>

serverVars == <<connected, users, tokens, dbUsers, dbOrders, dbTokens, now, resp>>

pairVars == <<memServer, docServer>>

serviceVars == <<threads, call>>

unitVars == <<purchaseHistory, inventory, balance, probe>>

vars == <<cartVars, serverVars, pairVars, serviceVars, unitVars>>

----------------------------------------------------------------------------
(* Bounds of the model *)

MaxCartOps == 4

\* user records in a store, token strings issued, seconds of time(nullptr),
\* the quantity of a cart entry, purchase records of one user
MaxUsers == 2
MaxTokens == 2
MaxTime == 1
MaxQty == 1
MaxHistory == 2

----------------------------------------------------------------------------
(* unsigned int (Cart.h: CartItem::quantity), 32 bits as two 16-bit halves *)

Half == 65536

U32(n) == <<n \div Half, n % Half>>

MaxU32 == <<Half - 1, Half - 1>>

IsZero32(q) == q = <<0, 0>>

\* a + b modulo 2^32
Add32(a, b) ==
  LET lo == a[2] + b[2]
      hi == a[1] + b[1] + (lo \div Half)
  IN  <<hi % Half, lo % Half>>

----------------------------------------------------------------------------
(* Cart (Cart.cpp).  A Cart is its vector of items.                        *)

CartItem(id, displayName, unitPrice, qty) ==
  [productId |-> id, name |-> displayName, price |-> unitPrice, quantity |-> qty]

\* Cart::findItem: the index of the first entry with the productId, 0 for nullptr
Cart_findItem(items, productId) ==
  IF \E i \in 1..Len(items) : items[i].productId = productId
  THEN CHOOSE i \in 1..Len(items) :
         /\ items[i].productId = productId
         /\ \A j \in 1..(i - 1) : items[j].productId # productId
  ELSE 0

\* a plausible slip: addItem that appends without looking for the entry
Cart_addItem_NoMerge(items, item) ==
  IF ~IsZero32(item.quantity) THEN Append(items, item) ELSE items

\* a plausible slip: addItem that overwrites the quantity of the entry
Cart_addItem_Overwrite(items, item) ==
  LET existing == Cart_findItem(items, item.productId)
  IN  IF existing # 0
      THEN [items EXCEPT ![existing].quantity = item.quantity]
      ELSE IF ~IsZero32(item.quantity) THEN Append(items, item) ELSE items

\* a plausible slip: addItem that appends a new entry whatever its quantity
Cart_addItem_AlwaysAppend(items, item) ==
  LET existing == Cart_findItem(items, item.productId)
  IN  IF existing # 0
      THEN [items EXCEPT ![existing].quantity = Add32(@, item.quantity)]
      ELSE Append(items, item)

\* a plausible slip: addItem that puts a new entry in front
Cart_addItem_Prepend(items, item) ==
  LET existing == Cart_findItem(items, item.productId)
  IN  IF existing # 0
      THEN [items EXCEPT ![existing].quantity = Add32(@, item.quantity)]
      ELSE IF ~IsZero32(item.quantity) THEN <<item>> \o items ELSE items

\* Cart::addItem
Cart_addItem(items, item) ==
  LET existing == Cart_findItem(items, item.productId)
  IN  IF existing # 0
      THEN [items EXCEPT ![existing].quantity = Add32(@, item.quantity)]
      ELSE IF ~IsZero32(item.quantity) THEN Append(items, item) ELSE items

\* a plausible slip: removeItem that returns true whatever it found
Cart_removeItem_AlwaysTrue(items, productId) ==
  [items |-> SelectSeq(items, LAMBDA entry : entry.productId # productId),
   result |-> TRUE]

\* Cart::removeItem: erase(remove_if(...)), true iff the size changed
Cart_removeItem(items, productId) ==
  LET kept == SelectSeq(items, LAMBDA entry : entry.productId # productId)
  IN  [items |-> kept, result |-> Len(kept) # Len(items)]

\* a plausible slip: updateQuantity that stores quantity 0 in the entry
Cart_updateQuantity_KeepZero(items, productId, quantity) ==
  LET existing == Cart_findItem(items, productId)
  IN  IF existing = 0
      THEN [items |-> items, result |-> FALSE]
      ELSE [items |-> [items EXCEPT ![existing].quantity = quantity], result |-> TRUE]

\* a plausible slip: updateQuantity that adds to the quantity of the entry
Cart_updateQuantity_Additive(items, productId, quantity) ==
  LET existing == Cart_findItem(items, productId)
  IN  IF existing = 0
      THEN [items |-> items, result |-> FALSE]
      ELSE IF IsZero32(quantity)
           THEN [items |-> Cart_removeItem(items, productId).items, result |-> TRUE]
           ELSE [items |-> [items EXCEPT ![existing].quantity = Add32(@, quantity)],
                 result |-> TRUE]

\* Cart::updateQuantity
Cart_updateQuantity(items, productId, quantity) ==
  LET existing == Cart_findItem(items, productId)
  IN  IF existing = 0
      THEN [items |-> items, result |-> FALSE]
      ELSE IF IsZero32(quantity)
           THEN [items |-> Cart_removeItem(items, productId).items, result |-> TRUE]
           ELSE [items |-> [items EXCEPT ![existing].quantity = quantity],
                 result |-> TRUE]

\* Cart::clear
Cart_clear(items) == << >>

\* a plausible slip: an isEmpty that never says empty
Cart_isEmpty_Never(items) == FALSE

\* Cart::isEmpty
Cart_isEmpty(items) == Len(items) = 0

----------------------------------------------------------------------------
(* CartSpec: one Cart, constructed empty, under any calls of its methods   *)

\* the items and quantities the calls are made with (cart_tests.cpp)
CartProductIds == {"ITEM001", "ITEM002"}

CartQuantities == {U32(0), U32(1), U32(2), MaxU32}

CartInputItem(id, qty) ==
  IF id = "ITEM001" THEN CartItem(id, "Laptop", 99999, qty)
                    ELSE CartItem(id, "Mouse", 2500, qty)

CartInit ==
  /\ cart = << >>
  /\ cartRet = [op |-> "new", result |-> TRUE]
  /\ adds = << >>
  /\ nOps = 0
  /\ purchaseHistory = << >>
  /\ inventory = << >>
  /\ balance = 0
  /\ probe = << >>
  /\ connected = FALSE
  /\ users = << >>
  /\ tokens = << >>
  /\ dbUsers = << >>
  /\ dbOrders = << >>
  /\ dbTokens = << >>
  /\ now = 0
  /\ resp = << >>
  /\ memServer = << >>
  /\ docServer = << >>
  /\ threads = << >>
  /\ call = << >>

CartAddItem ==
  \E id \in CartProductIds, qty \in CartQuantities :
    /\ nOps < MaxCartOps
    /\ cart' = Cart_addItem(cart, CartInputItem(id, qty))
    /\ cartRet' = [op |-> "addItem", result |-> TRUE]
    /\ adds' = IF Len(adds) = nOps THEN Append(adds, CartInputItem(id, qty)) ELSE adds
    /\ nOps' = nOps + 1
    /\ UNCHANGED <<serverVars, pairVars, unitVars, serviceVars>>

CartUpdateQuantity ==
  \E id \in CartProductIds, qty \in CartQuantities :
    /\ nOps < MaxCartOps
    /\ cart' = Cart_updateQuantity(cart, id, qty).items
    /\ cartRet' = [op |-> "updateQuantity",
                   result |-> Cart_updateQuantity(cart, id, qty).result]
    /\ nOps' = nOps + 1
    /\ UNCHANGED <<adds, serverVars, pairVars, unitVars, serviceVars>>

CartRemoveItem ==
  \E id \in CartProductIds :
    /\ nOps < MaxCartOps
    /\ cart' = Cart_removeItem(cart, id).items
    /\ cartRet' = [op |-> "removeItem", result |-> Cart_removeItem(cart, id).result]
    /\ nOps' = nOps + 1
    /\ UNCHANGED <<adds, serverVars, pairVars, unitVars, serviceVars>>

CartClear ==
  /\ nOps < MaxCartOps
  /\ cart' = Cart_clear(cart)
  /\ cartRet' = [op |-> "clear", result |-> TRUE]
  /\ nOps' = nOps + 1
  /\ UNCHANGED <<adds, serverVars, pairVars, unitVars, serviceVars>>

----------------------------------------------------------------------------
(* C1: in every state reachable from an empty Cart by addItem,             *)
(* updateQuantity, removeItem and clear, no two entries of the Cart have   *)
(* the same productId.                                                     *)
C1_UniqueProductIds ==
  \A i, j \in 1..Len(cart) : cart[i].productId = cart[j].productId => i = j

\* addItem has been called twice for one productId, and another entry was added
C1_Witness ==
  /\ Len(cart) = 2
  /\ \E i \in 1..2 : cart[i].quantity = U32(3)
  /\ cartRet.op = "addItem"

----------------------------------------------------------------------------
(* C2: after a non-empty sequence of addItem calls on an empty Cart that   *)
(* all carry the same productId.                                           *)

\* nothing but addItem was called, at least once, always with one productId
OnlyAddsOfOneId ==
  /\ nOps > 0
  /\ Len(adds) = nOps
  /\ \A i \in 1..Len(adds) : adds[i].productId = adds[1].productId

RECURSIVE SumMod32(_)
SumMod32(s) == IF s = << >> THEN U32(0) ELSE Add32(s[1].quantity, SumMod32(Tail(s)))

\* the sum of the quantities as a number, <<hi, lo>> with hi not reduced
RECURSIVE SumExact(_)
SumExact(s) ==
  IF s = << >> THEN <<0, 0>>
  ELSE LET r  == SumExact(Tail(s))
           lo == s[1].quantity[2] + r[2]
       IN  <<s[1].quantity[1] + r[1] + (lo \div Half), lo % Half>>

EntriesOf(items, productId) == {i \in 1..Len(items) : items[i].productId = productId}

(* C2 as stated: the Cart holds exactly one entry for that productId and   *)
(* its quantity is the sum of the quantities passed to the calls.          *)
C2_Original ==
  OnlyAddsOfOneId =>
    /\ Cardinality(EntriesOf(cart, adds[1].productId)) = 1
    /\ \A i \in EntriesOf(cart, adds[1].productId) : cart[i].quantity = SumExact(adds)

(* C2, amended: the Cart holds no entry when every quantity passed was 0,  *)
(* and otherwise exactly one entry for that productId, whose quantity is   *)
(* the sum of the quantities passed modulo 2^32.                           *)
C2_MergedQuantity ==
  OnlyAddsOfOneId =>
    IF \A i \in 1..Len(adds) : IsZero32(adds[i].quantity)
    THEN cart = << >>
    ELSE /\ Len(cart) = 1
         /\ cart[1].productId = adds[1].productId
         /\ cart[1].quantity = SumMod32(adds)

\* three addItem calls for one productId, the first with quantity 0
C2_Witness ==
  /\ OnlyAddsOfOneId
  /\ Len(adds) = 3
  /\ IsZero32(adds[1].quantity)
  /\ Len(cart) = 1
  /\ cart[1].quantity = U32(3)

----------------------------------------------------------------------------
(* std::string: sequences of characters                                    *)

\* the characters used, in the order of their codes (std::string::operator<)
Ascii ==
  <<"\t", "\n", "\r", " ", "-", ".", "0", "1", "2", "3", "4", "5", "6", "7", "8", "9",
    "@", "A", "B", "C", "D", "E", "F", "G", "H", "I", "J", "K", "L", "M", "N", "O",
    "P", "Q", "R", "S", "T", "U", "V", "W", "X", "Y", "Z", "_", "a", "b", "c", "d",
    "e", "f", "g", "h", "i", "j", "k", "l", "m", "n", "o", "p", "q", "r", "s", "t",
    "u", "v", "w", "x", "y", "z">>

UpperCase ==
  <<"A", "B", "C", "D", "E", "F", "G", "H", "I", "J", "K", "L", "M", "N", "O", "P",
    "Q", "R", "S", "T", "U", "V", "W", "X", "Y", "Z">>

LowerCase ==
  <<"a", "b", "c", "d", "e", "f", "g", "h", "i", "j", "k", "l", "m", "n", "o", "p",
    "q", "r", "s", "t", "u", "v", "w", "x", "y", "z">>

Digits == <<"0", "1", "2", "3", "4", "5", "6", "7", "8", "9">>

\* the characters of " \t\n\r"
Whitespace == {" ", "\t", "\n", "\r"}

CharCode(c) == CHOOSE i \in 1..Len(Ascii) : Ascii[i] = c

\* ::tolower on one character
tolower(c) ==
  IF \E i \in 1..Len(UpperCase) : UpperCase[i] = c
  THEN LowerCase[CHOOSE i \in 1..Len(UpperCase) : UpperCase[i] = c]
  ELSE c

\* std::transform(begin, end, begin, ::tolower)
toLower(str) == [i \in 1..Len(str) |-> tolower(str[i])]

RECURSIVE TrimLeft(_)
TrimLeft(str) ==
  IF str = << >> THEN << >>
  ELSE IF Head(str) \in Whitespace THEN TrimLeft(Tail(str)) ELSE str

RECURSIVE TrimRight(_)
TrimRight(str) ==
  IF str = << >> THEN << >>
  ELSE IF str[Len(str)] \in Whitespace THEN TrimRight(SubSeq(str, 1, Len(str) - 1))
       ELSE str

\* erase(0, find_first_not_of(" \t\n\r")); erase(find_last_not_of(" \t\n\r") + 1),
\* and SettingsService::trim, which returns the same string
trim(str) == TrimRight(TrimLeft(str))

\* std::string::operator<
RECURSIVE StrLess(_, _)
StrLess(a, b) ==
  IF b = << >> THEN FALSE
  ELSE IF a = << >> THEN TRUE
  ELSE IF Head(a) = Head(b) THEN StrLess(Tail(a), Tail(b))
  ELSE CharCode(Head(a)) < CharCode(Head(b))

\* str.find(prefix) == 0
StartsWith(str, prefix) ==
  /\ Len(str) >= Len(prefix)
  /\ SubSeq(str, 1, Len(prefix)) = prefix

\* std::to_string of a non-negative number
RECURSIVE to_string(_)
to_string(n) ==
  IF n < 10 THEN <<Digits[n + 1]>>
  ELSE to_string(n \div 10) \o <<Digits[(n % 10) + 1]>>

\* the string literals of the code
sBearer == <<"B", "e", "a", "r", "e", "r", " ">>
sTokenPrefix == <<"t", "o", "k", "e", "n", "_">>
sOrdPrefix == <<"O", "R", "D", "_">>
sUnderscore == <<"_">>
sTestuser == <<"t", "e", "s", "t", "u", "s", "e", "r">>
sTestEmail ==
  <<"t", "e", "s", "t", "@", "e", "x", "a", "m", "p", "l", "e", ".", "c", "o", "m">>
sTestpass == <<"t", "e", "s", "t", "p", "a", "s", "s">>
sValiduser == <<"v", "a", "l", "i", "d", "u", "s", "e", "r">>
sValidpass == <<"v", "a", "l", "i", "d", "p", "a", "s", "s", "1", "2", "3">>
sAdmin == <<"a", "d", "m", "i", "n">>
sAdmin123 == <<"a", "d", "m", "i", "n", "1", "2", "3">>

----------------------------------------------------------------------------
(* double amounts: whole cents, as 7 base-256 digits, lowest first, so     *)
(* that a price times a 32-bit quantity has room                           *)

ZeroAmount == <<0, 0, 0, 0, 0, 0, 0>>

Bytes(q) == <<q[2] % 256, q[2] \div 256, q[1] % 256, q[1] \div 256>>

RECURSIVE MulDigits(_, _, _, _)
MulDigits(price, bytes, carry, n) ==
  IF n = 0 THEN << >>
  ELSE LET d == (IF bytes = << >> THEN 0 ELSE price * Head(bytes)) + carry
       IN  <<d % 256>> \o MulDigits(price, IF bytes = << >> THEN << >> ELSE Tail(bytes),
                                    d \div 256, n - 1)

RECURSIVE AddDigits(_, _, _)
AddDigits(a, b, carry) ==
  IF a = << >> THEN << >>
  ELSE LET d == Head(a) + Head(b) + carry
       IN  <<d % 256>> \o AddDigits(Tail(a), Tail(b), d \div 256)

\* CartItem::subtotal, PurchaseRecord::subtotal: price * quantity
subtotal(item) == MulDigits(item.price, Bytes(item.quantity), 0, Len(ZeroAmount))

RECURSIVE SumSubtotals(_, _)
SumSubtotals(items, total) ==
  IF items = << >> THEN total
  ELSE SumSubtotals(Tail(items), AddDigits(total, subtotal(Head(items)), 0))

\* a plausible slip: a getTotal that adds up the prices
Cart_getTotal_NoQuantity(items) ==
  SumSubtotals([i \in 1..Len(items) |-> [items[i] EXCEPT !.quantity = U32(1)]],
               ZeroAmount)

\* Cart::getTotal
Cart_getTotal(items) == SumSubtotals(items, ZeroAmount)

\* CartSpec: getTotal is called on the Cart under test
CartGetTotal ==
  /\ cartRet' = [op |-> "getTotal", result |-> Cart_getTotal(cart)]
  /\ UNCHANGED <<cart, adds, nOps, serverVars, pairVars, unitVars, serviceVars>>

CartNext ==
  CartAddItem \/ CartUpdateQuantity \/ CartRemoveItem \/ CartClear \/ CartGetTotal

CartSpec == CartInit /\ [][CartNext]_vars

----------------------------------------------------------------------------
(* PurchaseHistory (PurchaseHistory.cpp).  A history is its vector.        *)

PurchaseRecord(itemId, itemName, itemPrice, qty) ==
  [id |-> itemId, name |-> itemName, price |-> itemPrice, quantity |-> qty]

\* a plausible slip: a recordPurchase that merges into a record of the same id,
\* as Cart::addItem does
PurchaseHistory_recordPurchase_Merge(purchases, item) ==
  IF \E i \in 1..Len(purchases) : purchases[i].id = item.id
  THEN LET i == CHOOSE k \in 1..Len(purchases) : purchases[k].id = item.id
       IN [purchases EXCEPT ![i].quantity = Add32(@, item.quantity)]
  ELSE Append(purchases, item)

\* PurchaseHistory::recordPurchase
PurchaseHistory_recordPurchase(purchases, item) == Append(purchases, item)

\* a plausible slip: a recordPurchases that keeps only the new records
PurchaseHistory_recordPurchases_Replace(purchases, items) == items

\* PurchaseHistory::recordPurchases
PurchaseHistory_recordPurchases(purchases, items) == purchases \o items

\* PurchaseHistory::hasPurchase
PurchaseHistory_hasPurchase(purchases, itemId) ==
  \E i \in 1..Len(purchases) : purchases[i].id = itemId

\* PurchaseHistory::clear
PurchaseHistory_clear(purchases) == << >>

\* PurchaseHistory::getTotalSpent
PurchaseHistory_getTotalSpent(purchases) == SumSubtotals(purchases, ZeroAmount)

----------------------------------------------------------------------------
(* PurchaseService (PurchaseService.cpp): prices and balances in cents     *)

Item(itemId, itemName, itemPrice, isAvailable) ==
  [id |-> itemId, name |-> itemName, price |-> itemPrice, available |-> isAvailable]

PurchaseResult(s, msg, remaining) ==
  [success |-> s, message |-> msg, remainingBalance |-> remaining]

\* PurchaseService::initializeInventory
PurchaseService_initializeInventory ==
  << Item("ITEM001", "Laptop", 99999, TRUE),
     Item("ITEM002", "Mouse", 2999, TRUE),
     Item("ITEM003", "Keyboard", 7999, TRUE),
     Item("ITEM004", "Monitor", 29999, FALSE) >>

\* PurchaseService::findItem: the index of the first item with the id, 0 for
\* nullptr
PurchaseService_findItem(items, itemId) ==
  IF \E i \in 1..Len(items) : items[i].id = itemId
  THEN CHOOSE i \in 1..Len(items) :
         /\ items[i].id = itemId
         /\ \A j \in 1..(i - 1) : items[j].id # itemId
  ELSE 0

\* PurchaseService::hasSufficientFunds
PurchaseService_hasSufficientFunds(userBalance, itemPrice) == userBalance >= itemPrice

\* PurchaseService::processPayment
PurchaseService_processPayment(userBalance, itemPrice) == userBalance - itemPrice

\* a plausible slip: a purchaseItem that does not look at the funds
PurchaseService_purchaseItem_NoFundsCheck(items, itemId, userBalance) ==
  LET foundItem == PurchaseService_findItem(items, itemId)
  IN  IF foundItem = 0
      THEN [result |-> PurchaseResult(FALSE, "Item not found", userBalance),
            userBalance |-> userBalance, inventory |-> items]
      ELSE IF ~items[foundItem].available
      THEN [result |-> PurchaseResult(FALSE, "Item out of stock", userBalance),
            userBalance |-> userBalance, inventory |-> items]
      ELSE LET paid == PurchaseService_processPayment(userBalance, items[foundItem].price)
           IN  [result |-> PurchaseResult(TRUE, "Purchase successful", paid),
                userBalance |-> paid, inventory |-> items]

\* PurchaseService::purchaseItem: the result, the userBalance it leaves in the
\* caller's variable, and the inventory
PurchaseService_purchaseItem(items, itemId, userBalance) ==
  LET foundItem == PurchaseService_findItem(items, itemId)
  IN  IF foundItem = 0
      THEN [result |-> PurchaseResult(FALSE, "Item not found", userBalance),
            userBalance |-> userBalance, inventory |-> items]
      ELSE IF ~items[foundItem].available
      THEN [result |-> PurchaseResult(FALSE, "Item out of stock", userBalance),
            userBalance |-> userBalance, inventory |-> items]
      ELSE IF ~PurchaseService_hasSufficientFunds(userBalance, items[foundItem].price)
      THEN [result |-> PurchaseResult(FALSE, "Insufficient funds", userBalance),
            userBalance |-> userBalance, inventory |-> items]
      ELSE LET paid == PurchaseService_processPayment(userBalance, items[foundItem].price)
           IN  [result |-> PurchaseResult(TRUE, "Purchase successful", paid),
                userBalance |-> paid, inventory |-> items]

\* PurchaseService::addItem
PurchaseService_addItem(items, item) == Append(items, item)

----------------------------------------------------------------------------
(* SearchService: the catalog (prices in cents)                            *)

CatalogItem(itemId, itemName, itemPrice, itemDescription) ==
  [id |-> itemId, name |-> itemName, price |-> itemPrice, description |-> itemDescription]

CATALOG ==
  << CatalogItem("ITEM001", "Laptop Pro 15", 99999,
                 "High-performance laptop with 16GB RAM and SSD"),
     CatalogItem("ITEM002", "Wireless Mouse", 2999,
                 "Ergonomic wireless mouse with long battery life"),
     CatalogItem("ITEM003", "Mechanical Keyboard", 7999,
                 "RGB backlit mechanical keyboard with blue switches"),
     CatalogItem("ITEM004", "4K Monitor", 29999,
                 "Ultra sharp IPS panel with 95% DCI-P3 coverage"),
     CatalogItem("ITEM005", "USB-C Hub", 4999,
                 "7-in-1 USB-C hub with HDMI and SD card reader"),
     CatalogItem("ITEM006", "Monitor Stand", 3999,
                 "Adjustable monitor stand with cable management"),
     CatalogItem("ITEM007", "Webcam HD", 7999,
                 "1080p HD webcam with built-in microphone"),
     CatalogItem("ITEM008", "Laptop Stand", 5999,
                 "Aluminum laptop stand for better ergonomics"),
     CatalogItem("ITEM009", "USB-C Cable", 1999,
                 "6ft USB-C to USB-C charging cable"),
     CatalogItem("ITEM010", "Gaming Headset", 14999,
                 "Wireless gaming headset with surround sound"),
     CatalogItem("ITEM011", "External Hard Drive", 8999,
                 "2TB portable external hard drive"),
     CatalogItem("ITEM012", "Wireless Charger", 3499,
                 "Fast wireless charging pad for phones"),
     CatalogItem("ITEM013", "Laptop Sleeve", 2499,
                 "Protective laptop sleeve with padding"),
     CatalogItem("ITEM014", "HDMI Cable", 1499,
                 "10ft high-speed HDMI 2.0 cable"),
     CatalogItem("ITEM015", "Mouse Pad", 2999,
                 "Large gaming mouse pad with RGB lighting") >>

\* SearchService::getItemById: the index into CATALOG, 0 for nullptr
SearchService_getItemById(itemId) ==
  IF \E i \in 1..Len(CATALOG) : CATALOG[i].id = itemId
  THEN CHOOSE i \in 1..Len(CATALOG) :
         /\ CATALOG[i].id = itemId
         /\ \A j \in 1..(i - 1) : CATALOG[j].id # itemId
  ELSE 0

\* the characters of a string literal
Chars(s) == [i \in 1..Len(s) |-> SubSeq(s, i, i)]

\* haystack.find(needle) != std::string::npos
Found(haystack, needle) ==
  \E at \in 0..(Len(haystack) - Len(needle)) :
    SubSeq(haystack, at + 1, at + Len(needle)) = needle

\* the test of one catalog item against the normalized query
SearchMatches(item, normalizedQuery) ==
  \/ Found(toLower(Chars(item.id)), normalizedQuery)
  \/ Found(toLower(Chars(item.name)), normalizedQuery)
  \/ Found(toLower(Chars(item.description)), normalizedQuery)

\* a plausible slip: a searchCatalog that returns the whole catalog for an
\* empty query
SearchService_searchCatalog_AllOnEmpty(query) ==
  SelectSeq(CATALOG, LAMBDA item : SearchMatches(item, toLower(trim(query))))

\* SearchService::searchCatalog
SearchService_searchCatalog(query) ==
  LET normalizedQuery == trim(query)
  IN  IF normalizedQuery = << >> THEN << >>
      ELSE SelectSeq(CATALOG, LAMBDA item : SearchMatches(item, toLower(normalizedQuery)))

----------------------------------------------------------------------------
(* LoginService (LoginService.cpp)                                         *)

validUsers ==
  << [username |-> sValiduser, password |-> sValidpass],
     [username |-> sAdmin, password |-> sAdmin123],
     [username |-> sTestuser, password |-> sTestpass] >>

LoginResult(s, msg, user) == [success |-> s, message |-> msg, username |-> user]

\* a plausible slip: an authenticate that looks at the password first
LoginService_authenticate_PasswordFirst(username, password) ==
  IF password = << >> THEN LoginResult(FALSE, "Password cannot be empty", << >>)
  ELSE IF username = << >> THEN LoginResult(FALSE, "Username cannot be empty", << >>)
  ELSE IF \E i \in 1..Len(validUsers) :
            validUsers[i].username = username /\ validUsers[i].password = password
       THEN LoginResult(TRUE, "Login successful", username)
       ELSE LoginResult(FALSE, "Invalid username or password", << >>)

\* LoginService::authenticate
LoginService_authenticate(username, password) ==
  IF username = << >> THEN LoginResult(FALSE, "Username cannot be empty", << >>)
  ELSE IF password = << >> THEN LoginResult(FALSE, "Password cannot be empty", << >>)
  ELSE IF ~\E i \in 1..Len(validUsers) : validUsers[i].username = username
       THEN LoginResult(FALSE, "Invalid username or password", << >>)
  ELSE LET user == validUsers[CHOOSE i \in 1..Len(validUsers) :
                                /\ validUsers[i].username = username
                                /\ \A j \in 1..(i - 1) :
                                     validUsers[j].username # username]
       IN  IF user.password # password
           THEN LoginResult(FALSE, "Invalid username or password", << >>)
           ELSE LoginResult(TRUE, "Login successful", user.username)

----------------------------------------------------------------------------
(* SettingsService (SettingsService.cpp)                                   *)

ValidationResult(isValid, val, err) == [valid |-> isValid, value |-> val, error |-> err]

\* a plausible slip: a validateUsername that measures the input before trimming
validateUsername_Untrimmed(username) ==
  IF username = << >> THEN ValidationResult(FALSE, << >>, "Username is required")
  ELSE IF Len(username) < 3 \/ Len(username) > 30
       THEN ValidationResult(FALSE, << >>, "Username must be 3-30 characters")
       ELSE ValidationResult(TRUE, trim(username), "")

\* SettingsService::validateUsername
validateUsername(username) ==
  IF username = << >> THEN ValidationResult(FALSE, << >>, "Username is required")
  ELSE IF Len(trim(username)) < 3 \/ Len(trim(username)) > 30
       THEN ValidationResult(FALSE, << >>, "Username must be 3-30 characters")
       ELSE ValidationResult(TRUE, trim(username), "")

\* [^\s@]+ : a non-empty run without whitespace and without @
IsLocalRun(str) ==
  /\ str # << >>
  /\ \A i \in 1..Len(str) : str[i] \notin Whitespace /\ str[i] # "@"

\* std::regex_match(str, [^\s@]+@[^\s@]+\.[^\s@]+)
MatchesEmailRegex(str) ==
  \E at \in 1..Len(str) :
    /\ str[at] = "@"
    /\ IsLocalRun(SubSeq(str, 1, at - 1))
    /\ \E dot \in (at + 1)..Len(str) :
         /\ str[dot] = "."
         /\ IsLocalRun(SubSeq(str, at + 1, dot - 1))
         /\ IsLocalRun(SubSeq(str, dot + 1, Len(str)))

\* SettingsService::validateEmail
validateEmail(email) ==
  IF email = << >> THEN ValidationResult(FALSE, << >>, "Email is required")
  ELSE IF ~MatchesEmailRegex(toLower(trim(email)))
       THEN ValidationResult(FALSE, << >>, "Invalid email format")
       ELSE ValidationResult(TRUE, toLower(trim(email)), "")

\* SettingsService::validatePassword
validatePassword(password) ==
  IF password = << >> THEN ValidationResult(FALSE, << >>, "Password is required")
  ELSE IF Len(password) < 6
       THEN ValidationResult(FALSE, << >>, "Password must be at least 6 characters long")
       ELSE ValidationResult(TRUE, password, "")

\* SettingsService::validateProfile
validateProfile(fullName, bio) ==
  IF trim(fullName) # << >> /\ Len(trim(fullName)) > 80
  THEN ValidationResult(FALSE, << >>, "Full name must be 80 characters or less")
  ELSE IF trim(bio) # << >> /\ Len(trim(bio)) > 160
       THEN ValidationResult(FALSE, << >>, "Bio must be 160 characters or less")
       ELSE ValidationResult(TRUE, << >>, "")

\* SettingsService::hashPassword
hashPassword(password) == password

----------------------------------------------------------------------------
(* The stores.  A store value st carries mongoService.connected, the two   *)
(* in-process maps of Server.cpp and the three collections.                *)

\* struct User (Server.cpp, MongoDBService.cpp)
User(userId, name, mail, pass, items, purchases, full, about) ==
  [id |-> userId, username |-> name, email |-> mail, password |-> pass,
   cart |-> items, history |-> purchases, fullName |-> full, bio |-> about]

\* a default-constructed User
EmptyUser == User(<< >>, << >>, << >>, << >>, << >>, << >>, << >>, << >>)

\* std::map
EmptyMap == [k \in {} |-> << >>]

MapPut(m, key, value) == [k \in (DOMAIN m) \cup {key} |-> IF k = key THEN value ELSE m[k]]

MapErase(m, key) == [k \in (DOMAIN m) \ {key} |-> m[k]]

\* the first key of a set of keys in the map's iteration order
FirstKey(keys) == CHOOSE k \in keys : \A j \in keys : j = k \/ StrLess(k, j)

\* for (auto& pair : users) if (pair.second.id == userId) ... break;
\* the key of the first such pair
KeysWithId(st, userId) == {k \in DOMAIN st.users : st.users[k].id = userId}

FoundById(st, userId) == KeysWithId(st, userId) # {}

KeyById(st, userId) == FirstKey(KeysWithId(st, userId))

\* static_cast<int32_t>(quantity), as the store keeps a quantity
ToInt32(q) ==
  IF q[1] < Half \div 2 THEN q[1] * Half + q[2] ELSE (q[1] - Half) * Half + q[2]

\* static_cast<unsigned int>(get_int32().value)
FromInt32(v) ==
  IF v >= 0 THEN U32(v)
  ELSE LET m == (v + 2147483647) + 1
       IN  <<(Half \div 2) + (m \div Half), m % Half>>

\* find_one: the index of the first document that matches, 0 when none
\* does; matches[i] says whether document i matches the filter
FirstDoc(matches) ==
  IF \E i \in 1..Len(matches) : matches[i]
  THEN CHOOSE i \in 1..Len(matches) : matches[i] /\ \A j \in 1..(i - 1) : ~matches[j]
  ELSE 0

\* the documents updateUser builds from a Cart and a PurchaseHistory
CartToDoc(items) ==
  [i \in 1..Len(items) |->
     [productId |-> items[i].productId, name |-> items[i].name,
      price |-> items[i].price, quantity |-> ToInt32(items[i].quantity)]]

HistoryToDoc(purchases) ==
  [i \in 1..Len(purchases) |->
     [id |-> purchases[i].id, name |-> purchases[i].name,
      price |-> purchases[i].price, quantity |-> ToInt32(purchases[i].quantity)]]

\* "Load cart": every stored item with a productId goes through Cart::addItem
RECURSIVE LoadCart(_, _)
LoadCart(stored, items) ==
  IF stored = << >> THEN items
  ELSE LoadCart(Tail(stored),
                IF Head(stored).productId # ""
                THEN Cart_addItem(items, CartItem(Head(stored).productId,
                                                  Head(stored).name,
                                                  Head(stored).price,
                                                  FromInt32(Head(stored).quantity)))
                ELSE items)

\* "Load purchase history": every stored record with an id is recorded
RECURSIVE LoadHistory(_, _)
LoadHistory(stored, purchases) ==
  IF stored = << >> THEN purchases
  ELSE LoadHistory(Tail(stored),
                   IF Head(stored).id # ""
                   THEN PurchaseHistory_recordPurchase(
                          purchases,
                          PurchaseRecord(Head(stored).id, Head(stored).name,
                                         Head(stored).price,
                                         FromInt32(Head(stored).quantity)))
                   ELSE purchases)

\* the User that findUserByUsername, findUserByEmail and findUserById fill in
LoadUser(doc) ==
  User(doc._id, doc.username, doc.email, doc.password,
       LoadCart(doc.cart, << >>), LoadHistory(doc.purchaseHistory, << >>),
       doc.fullName, doc.bio)

NotFound == [found |-> FALSE, user |-> EmptyUser]

\* MongoDBService::findUserByUsername
Mongo_findUserByUsername(st, username) ==
  LET i == FirstDoc([n \in 1..Len(st.dbUsers) |-> st.dbUsers[n].username = username])
  IN  IF ~st.connected \/ i = 0 THEN NotFound
      ELSE [found |-> TRUE, user |-> LoadUser(st.dbUsers[i])]

\* MongoDBService::findUserByEmail
Mongo_findUserByEmail(st, email) ==
  LET lowerEmail == toLower(trim(email))
      direct == FirstDoc([n \in 1..Len(st.dbUsers) |-> st.dbUsers[n].email = lowerEmail])
      byScan == FirstDoc([n \in 1..Len(st.dbUsers) |->
                            /\ st.dbUsers[n].email # << >>
                            /\ toLower(st.dbUsers[n].email) = lowerEmail
                            /\ st.dbUsers[n]._id # << >>])
      i == IF direct # 0 THEN direct
           ELSE IF byScan = 0 THEN 0
           ELSE FirstDoc([n \in 1..Len(st.dbUsers) |-> st.dbUsers[n]._id = st.dbUsers[byScan]._id])
  IN  IF ~st.connected \/ i = 0 THEN NotFound
      ELSE [found |-> TRUE, user |-> LoadUser(st.dbUsers[i])]

\* MongoDBService::emailExists
Mongo_emailExists(st, email) ==
  LET lowerEmail == toLower(trim(email))
  IN  /\ st.connected
      /\ \/ FirstDoc([n \in 1..Len(st.dbUsers) |-> st.dbUsers[n].email = lowerEmail]) # 0
         \/ \E i \in 1..Len(st.dbUsers) :
              /\ st.dbUsers[i].email # << >>
              /\ toLower(trim(st.dbUsers[i].email)) = lowerEmail

\* MongoDBService::findUserById (_id is always stored as a string)
Mongo_findUserById(st, userId) ==
  LET i == FirstDoc([n \in 1..Len(st.dbUsers) |-> st.dbUsers[n]._id = userId])
  IN  IF ~st.connected \/ i = 0 THEN NotFound
      ELSE IF st.dbUsers[i]._id = << >> THEN NotFound
      ELSE IF st.dbUsers[i].username = << >> THEN NotFound
      ELSE IF st.dbUsers[i].email = << >> THEN NotFound
      ELSE [found |-> TRUE, user |-> LoadUser(st.dbUsers[i])]

\* a plausible slip: a createUser without "if (!connected) return false"
Mongo_createUser_Unchecked(st, username, email, password, userId) ==
  LET normalizedEmail == toLower(trim(email))
  IN  IF \/ FirstDoc([n \in 1..Len(st.dbUsers) |-> st.dbUsers[n].username = username]) # 0
         \/ FirstDoc([n \in 1..Len(st.dbUsers) |-> st.dbUsers[n].email = normalizedEmail]) # 0
         \/ FirstDoc([n \in 1..Len(st.dbUsers) |-> st.dbUsers[n]._id = userId]) # 0
      THEN [ok |-> FALSE, st |-> st]
      ELSE [ok |-> TRUE,
            st |-> [st EXCEPT !.dbUsers =
                      Append(@, [_id |-> userId, username |-> username,
                                 email |-> normalizedEmail, password |-> password,
                                 fullName |-> << >>, bio |-> << >>,
                                 cart |-> << >>, purchaseHistory |-> << >>])]]

\* MongoDBService::createUser; insert_one throws on a duplicate _id
Mongo_createUser(st, username, email, password, userId) ==
  LET normalizedEmail == toLower(trim(email))
  IN  IF \/ ~st.connected
         \/ FirstDoc([n \in 1..Len(st.dbUsers) |-> st.dbUsers[n].username = username]) # 0
         \/ FirstDoc([n \in 1..Len(st.dbUsers) |-> st.dbUsers[n].email = normalizedEmail]) # 0
         \/ \E i \in 1..Len(st.dbUsers) :
              /\ st.dbUsers[i].email # << >>
              /\ toLower(trim(st.dbUsers[i].email)) = normalizedEmail
         \/ FirstDoc([n \in 1..Len(st.dbUsers) |-> st.dbUsers[n]._id = userId]) # 0
      THEN [ok |-> FALSE, st |-> st]
      ELSE [ok |-> TRUE,
            st |-> [st EXCEPT !.dbUsers =
                      Append(@, [_id |-> userId, username |-> username,
                                 email |-> normalizedEmail, password |-> password,
                                 fullName |-> << >>, bio |-> << >>,
                                 cart |-> << >>, purchaseHistory |-> << >>])]]

\* a plausible slip: an updateUser that stores the email as given
Mongo_updateUser_RawEmail(st, userId, user) ==
  LET i == FirstDoc([n \in 1..Len(st.dbUsers) |-> st.dbUsers[n]._id = userId])
      updated == [st.dbUsers[i] EXCEPT
                    !.username = user.username,
                    !.email = user.email,
                    !.password = user.password,
                    !.fullName = user.fullName,
                    !.bio = user.bio,
                    !.cart = CartToDoc(user.cart),
                    !.purchaseHistory = HistoryToDoc(user.history)]
  IN  IF ~st.connected \/ i = 0 THEN [ok |-> FALSE, st |-> st]
      ELSE [ok |-> updated # st.dbUsers[i],
            st |-> [st EXCEPT !.dbUsers[i] = updated]]

\* MongoDBService::updateUser: $set on the document with the _id;
\* true iff a document was modified
Mongo_updateUser(st, userId, user) ==
  LET i == FirstDoc([n \in 1..Len(st.dbUsers) |-> st.dbUsers[n]._id = userId])
      updated == [st.dbUsers[i] EXCEPT
                    !.username = user.username,
                    !.email = toLower(user.email),
                    !.password = user.password,
                    !.fullName = user.fullName,
                    !.bio = user.bio,
                    !.cart = CartToDoc(user.cart),
                    !.purchaseHistory = HistoryToDoc(user.history)]
  IN  IF ~st.connected \/ i = 0 THEN [ok |-> FALSE, st |-> st]
      ELSE [ok |-> updated # st.dbUsers[i],
            st |-> [st EXCEPT !.dbUsers[i] = updated]]

\* MongoDBService::getCart
Mongo_getCart(st, userId) ==
  [ok |-> Mongo_findUserById(st, userId).found,
   cart |-> Mongo_findUserById(st, userId).user.cart]

\* for (const auto& item : cart) user.cart.addItem(item);
RECURSIVE AddEach(_, _)
AddEach(items, added) ==
  IF added = << >> THEN items
  ELSE AddEach(Cart_addItem(items, Head(added)), Tail(added))

\* MongoDBService::updateCart
Mongo_updateCart(st, userId, items) ==
  LET r == Mongo_findUserById(st, userId)
  IN  IF ~r.found THEN [ok |-> FALSE, st |-> st]
      ELSE Mongo_updateUser(st, userId,
                            [r.user EXCEPT !.cart = AddEach(Cart_clear(@), items)])

\* MongoDBService::clearCart
Mongo_clearCart(st, userId) ==
  LET r == Mongo_findUserById(st, userId)
  IN  IF ~r.found THEN [ok |-> FALSE, st |-> st]
      ELSE Mongo_updateUser(st, userId, [r.user EXCEPT !.cart = Cart_clear(@)])

\* the order document addPurchase inserts
OrderDoc(userId, purchases, orderId, total, t) ==
  [_id |-> orderId, userId |-> userId,
   items |-> [i \in 1..Len(purchases) |->
                [productId |-> purchases[i].id, id |-> purchases[i].id,
                 name |-> purchases[i].name, price |-> purchases[i].price,
                 quantity |-> ToInt32(purchases[i].quantity),
                 subtotal |-> subtotal(purchases[i])]],
   total |-> total, timestamp |-> t]

\* for (const auto& purchase : purchases) user.history.recordPurchase(purchase);
RECURSIVE RecordEach(_, _)
RecordEach(history, purchases) ==
  IF purchases = << >> THEN history
  ELSE RecordEach(PurchaseHistory_recordPurchase(history, Head(purchases)), Tail(purchases))

\* a plausible slip: an addPurchase that inserts the order before it looks
\* for the user
Mongo_addPurchase_OrderFirst(st, userId, purchases, orderId, total, t) ==
  LET r == Mongo_findUserById(st, userId)
      withOrder == [st EXCEPT !.dbOrders =
                      Append(@, OrderDoc(userId, purchases, orderId, total, t))]
  IN  IF FirstDoc([n \in 1..Len(st.dbOrders) |-> st.dbOrders[n]._id = orderId]) # 0
      THEN [ok |-> FALSE, st |-> st]
      ELSE IF ~r.found THEN [ok |-> FALSE, st |-> withOrder]
           ELSE Mongo_updateUser(
                  withOrder, userId,
                  [r.user EXCEPT !.history = RecordEach(@, purchases)])

\* MongoDBService::addPurchase; insert_one throws on a duplicate _id
Mongo_addPurchase(st, userId, purchases, orderId, total, t) ==
  LET r == Mongo_findUserById(st, userId)
      withOrder == [st EXCEPT !.dbOrders =
                      Append(@, OrderDoc(userId, purchases, orderId, total, t))]
  IN  IF ~r.found THEN [ok |-> FALSE, st |-> st]
      ELSE IF FirstDoc([n \in 1..Len(st.dbOrders) |-> st.dbOrders[n]._id = orderId]) # 0
           THEN [ok |-> FALSE, st |-> st]
           ELSE Mongo_updateUser(
                  withOrder, userId,
                  [r.user EXCEPT !.history = RecordEach(@, purchases)])

\* MongoDBService::getPurchaseHistory: the orders of the user (at most 100)
Mongo_getPurchaseHistory(st, userId) ==
  [ok |-> st.connected,
   orders |-> IF st.connected
              THEN SelectSeq(st.dbOrders, LAMBDA d : d.userId = userId)
              ELSE << >>]

\* a plausible slip: a saveToken that inserts without removing the old token
Mongo_saveToken_NoDelete(st, token, userId, t) ==
  IF ~st.connected THEN [ok |-> FALSE, st |-> st]
  ELSE [ok |-> TRUE,
        st |-> [st EXCEPT !.dbTokens =
                  Append(@, [token |-> token, userId |-> userId, createdAt |-> t])]]

\* MongoDBService::saveToken: delete_one, then insert_one
Mongo_saveToken(st, token, userId, t) ==
  LET i == FirstDoc([n \in 1..Len(st.dbTokens) |-> st.dbTokens[n].token = token])
      rest == IF i = 0 THEN st.dbTokens
              ELSE SubSeq(st.dbTokens, 1, i - 1) \o
                   SubSeq(st.dbTokens, i + 1, Len(st.dbTokens))
  IN  IF ~st.connected THEN [ok |-> FALSE, st |-> st]
      ELSE [ok |-> TRUE,
            st |-> [st EXCEPT !.dbTokens =
                      Append(rest, [token |-> token, userId |-> userId,
                                    createdAt |-> t])]]

\* MongoDBService::getUserIdFromToken
Mongo_getUserIdFromToken(st, token) ==
  LET i == FirstDoc([n \in 1..Len(st.dbTokens) |-> st.dbTokens[n].token = token])
  IN  IF ~st.connected \/ i = 0 THEN << >> ELSE st.dbTokens[i].userId

\* Server::getUserIdFromToken
getUserIdFromToken(st, token) ==
  IF st.connected /\ Mongo_getUserIdFromToken(st, token) # << >>
  THEN Mongo_getUserIdFromToken(st, token)
  ELSE IF token \in DOMAIN st.tokens THEN st.tokens[token] ELSE << >>

----------------------------------------------------------------------------
(* Server.cpp: the handlers.  A handler takes the store, what parseString  *)
(* extracts from the request body, and the value of time(nullptr); it      *)
(* gives the store it leaves and the response it returns.                  *)

Response(s, msg, payload) == [success |-> s, message |-> msg, data |-> payload]

Failure(st, msg) == [st |-> st, out |-> Response(FALSE, msg, << >>)]

\* "token_" + username + "_" + std::to_string(time(nullptr))
MakeToken(username, t) == sTokenPrefix \o username \o sUnderscore \o to_string(t)

\* response["token"], response["user"]
Session(token, userId, username, email) ==
  [token |-> token, user |-> [id |-> userId, username |-> username, email |-> email]]

\* Server::handleSignup, the branch without MongoDB
handleSignup_InMemory(st, body, t) ==
  LET lowerEmail == toLower(body.email)
      userId == to_string(Cardinality(DOMAIN st.users) + 1)
      token == MakeToken(body.username, t)
  IN  IF body.username \in DOMAIN st.users THEN Failure(st, "Username already exists")
      ELSE IF \E k \in DOMAIN st.users : toLower(st.users[k].email) = lowerEmail
           THEN Failure(st, "Email already exists")
           ELSE [st |-> [st EXCEPT
                           !.users = MapPut(@, body.username,
                                            User(userId, body.username, body.email,
                                                 body.password, << >>, << >>, << >>, << >>)),
                           !.tokens = MapPut(@, token, userId)],
                 out |-> Response(TRUE, "User created successfully",
                                  Session(token, userId, body.username, body.email))]

\* Server::handleSignup, the branch with MongoDB
handleSignup_Mongo(st, body, t) ==
  LET normalizedEmail == toLower(trim(body.email))
      userId == to_string(t) \o sUnderscore \o body.username
      created == Mongo_createUser(st, body.username, normalizedEmail, body.password, userId)
      token == MakeToken(body.username, t)
      saved == Mongo_saveToken(created.st, token, userId, t)
  IN  IF Mongo_findUserByUsername(st, body.username).found
      THEN Failure(st, "Username already exists")
      ELSE IF Mongo_emailExists(st, normalizedEmail)
           THEN Failure(st, "Email already exists")
      ELSE IF Mongo_findUserByEmail(st, normalizedEmail).found
           THEN Failure(st, "Email already exists")
      ELSE IF ~created.ok
           THEN IF Mongo_findUserByEmail(st, normalizedEmail).found
                THEN Failure(st, "Email already exists")
                ELSE IF Mongo_findUserByUsername(st, body.username).found
                     THEN Failure(st, "Username already exists")
                     ELSE Failure(st, "Failed to create user. Please try again.")
      ELSE [st |-> [saved.st EXCEPT !.tokens = MapPut(@, token, userId)],
            out |-> Response(TRUE, "User created successfully",
                             Session(token, userId, body.username, body.email))]

\* a plausible slip: a handleSignup that does not look at the password length
handleSignup_AnyPassword(st, body, t) ==
  IF body.username = << >> \/ body.email = << >> \/ body.password = << >>
  THEN Failure(st, "Username, email, and password are required")
  ELSE IF st.connected THEN handleSignup_Mongo(st, body, t)
       ELSE handleSignup_InMemory(st, body, t)

\* Server::handleSignup
handleSignup(st, body, t) ==
  IF body.username = << >> \/ body.email = << >> \/ body.password = << >>
  THEN Failure(st, "Username, email, and password are required")
  ELSE IF Len(body.password) < 6
       THEN Failure(st, "Password must be at least 6 characters long")
       ELSE IF st.connected THEN handleSignup_Mongo(st, body, t)
            ELSE handleSignup_InMemory(st, body, t)

\* username.find('@') != std::string::npos
HasAt(str) == \E i \in 1..Len(str) : str[i] = "@"

\* Server::handleLogin, the branch with MongoDB
handleLogin_Mongo(st, body, t) ==
  LET byName == Mongo_findUserByUsername(st, body.username)
      byMail == IF HasAt(body.username)
                THEN Mongo_findUserByEmail(st, toLower(trim(body.username)))
                ELSE NotFound
      r == IF byName.found THEN byName ELSE byMail
      token == MakeToken(r.user.username, t)
      saved == Mongo_saveToken(st, token, r.user.id, t)
  IN  IF r.found /\ r.user.password = body.password
      THEN [st |-> [saved.st EXCEPT !.tokens = MapPut(@, token, r.user.id)],
            out |-> Response(TRUE, "Login successful",
                             Session(token, r.user.id, r.user.username, r.user.email))]
      ELSE Failure(st, "Invalid username or password")

\* Server::handleLogin, the branch without MongoDB
handleLogin_InMemory(st, body, t) ==
  LET builtin == LoginService_authenticate(body.username, body.password)
      known == body.username \in DOMAIN st.users
      result == IF ~builtin.success /\ known
                   /\ st.users[body.username].password = body.password
                THEN LoginResult(TRUE, "Login successful", body.username)
                ELSE builtin
      token == MakeToken(body.username, t)
      userId == IF known THEN st.users[body.username].id ELSE result.username
      email == IF known THEN st.users[body.username].email ELSE << >>
  IN  IF result.success
      THEN [st |-> [st EXCEPT !.tokens = MapPut(@, token, userId)],
            out |-> Response(TRUE, result.message,
                             IF email # << >>
                             THEN Session(token, userId, result.username, email)
                             ELSE [token |-> token,
                                   user |-> [id |-> userId,
                                             username |-> result.username]])]
      ELSE Failure(st, result.message)

\* Server::handleLogin
handleLogin(st, body, t) ==
  IF body.username = << >> \/ body.password = << >>
  THEN Failure(st, "Username and password are required")
  ELSE IF st.connected THEN handleLogin_Mongo(st, body, t)
       ELSE handleLogin_InMemory(st, body, t)

----------------------------------------------------------------------------
(* Server.cpp: cart and checkout handlers                                  *)

\* the user a handler works on: findUserById with MongoDB, else the first
\* record of the users map with the id
LookupUser(st, userId) ==
  IF st.connected THEN Mongo_findUserById(st, userId)
  ELSE IF FoundById(st, userId)
       THEN [found |-> TRUE, user |-> st.users[KeyById(st, userId)]]
       ELSE NotFound

\* the entries as a response lists them
ItemList(items) ==
  [i \in 1..Len(items) |->
     [productId |-> items[i].productId, name |-> items[i].name,
      price |-> items[i].price, quantity |-> items[i].quantity]]

\* Server::handleGetCart
handleGetCart(st, userId) ==
  LET r == LookupUser(st, userId)
  IN  IF userId = << >> THEN Failure(st, "Invalid user ID")
      ELSE IF ~r.found THEN Failure(st, "User not found")
      ELSE [st |-> st,
            out |-> Response(TRUE, "",
                             [cart |-> ItemList(r.user.cart),
                              total |-> Cart_getTotal(r.user.cart)])]

\* the digits std::stoi reads
RECURSIVE DigitsValue(_, _)
DigitsValue(str, acc) ==
  IF str = << >> \/ ~\E d \in 1..Len(Digits) : Digits[d] = Head(str) THEN acc
  ELSE DigitsValue(Tail(str),
                   acc * 10 + (CHOOSE d \in 1..Len(Digits) : Digits[d] = Head(str)) - 1)

\* std::stoi on a number with an optional minus sign
stoi(str) ==
  IF Head(str) = "-" THEN 0 - DigitsValue(Tail(str), 0) ELSE DigitsValue(str, 0)

\* unsigned int quantity = qtyStr.empty() ? 1 : std::stoi(qtyStr);
ParseQuantity(qtyStr) == IF qtyStr = << >> THEN U32(1) ELSE FromInt32(stoi(qtyStr))

\* if (quantity < 1) quantity = 1; if (quantity > 99) quantity = 99;
ClampQuantity(q) ==
  IF IsZero32(q) THEN U32(1)
  ELSE IF q[1] > 0 \/ q[2] > 99 THEN U32(99)
  ELSE q

\* the handlers change the cart of the user and store it: updateCart with
\* MongoDB (its result is not looked at), else in place in the users map
StoreCart(st, userId, items) ==
  IF st.connected THEN Mongo_updateCart(st, userId, items).st
  ELSE [st EXCEPT !.users[KeyById(st, userId)].cart = items]

\* Server::handleAddToCart
handleAddToCart(st, body, userId) ==
  LET quantity == ClampQuantity(ParseQuantity(body.quantity))
      product == SearchService_getItemById(body.productId)
      r == LookupUser(st, userId)
      cartItem == CartItem(body.productId, CATALOG[product].name,
                           CATALOG[product].price, quantity)
      stored == StoreCart(st, userId, Cart_addItem(r.user.cart, cartItem))
  IN  IF product = 0 THEN Failure(st, "Product not found")
      ELSE IF ~r.found THEN Failure(st, "User not found")
      ELSE [st |-> stored, out |-> handleGetCart(stored, userId).out]

\* Server::handleUpdateCart
handleUpdateCart(st, productId, quantity, userId) ==
  LET r == LookupUser(st, userId)
      updated == Cart_updateQuantity(r.user.cart, productId, quantity)
      stored == StoreCart(st, userId, updated.items)
  IN  IF ~r.found THEN Failure(st, "User not found")
      ELSE IF ~updated.result THEN Failure(st, "Item not found in cart")
      ELSE [st |-> stored, out |-> handleGetCart(stored, userId).out]

\* Server::handleRemoveFromCart
handleRemoveFromCart(st, productId, userId) ==
  LET r == LookupUser(st, userId)
      removed == Cart_removeItem(r.user.cart, productId)
      stored == StoreCart(st, userId, removed.items)
  IN  IF ~r.found THEN Failure(st, "User not found")
      ELSE IF ~removed.result THEN Failure(st, "Item not found in cart")
      ELSE [st |-> stored, out |-> handleGetCart(stored, userId).out]

\* Server::handleClearCart
handleClearCart(st, userId) ==
  LET cleared == [st |-> IF st.connected THEN Mongo_clearCart(st, userId).st
                         ELSE StoreCart(st, userId, Cart_clear(<< >>)),
                  out |-> Response(TRUE, "", [cart |-> << >>, total |-> ZeroAmount])]
  IN  IF st.connected THEN cleared
      ELSE IF ~FoundById(st, userId) THEN Failure(st, "User not found")
      ELSE cleared

\* "ORD_" + userId + "_" + std::to_string(time(nullptr))
MakeOrderId(userId, t) == sOrdPrefix \o userId \o sUnderscore \o to_string(t)

\* a plausible slip: a summary that echoes the card number whole
PaymentSummary_WholeCard(body) ==
  [k \in (IF body.hasCard THEN {"last4"} ELSE {}) \cup
         (IF body.hasName THEN {"cardholderName"} ELSE {}) |->
     IF k = "last4" THEN body.cardNumber ELSE body.cardholderName]

\* json paymentSummary: last4 for a card number longer than 4, cardholderName
PaymentSummary(body) ==
  [k \in (IF body.hasCard /\ Len(body.cardNumber) > 4 THEN {"last4"} ELSE {}) \cup
         (IF body.hasName THEN {"cardholderName"} ELSE {}) |->
     IF k = "last4"
     THEN SubSeq(body.cardNumber, Len(body.cardNumber) - 3, Len(body.cardNumber))
     ELSE body.cardholderName]

\* Server::handleCheckout.  cartItems is a reference to the cart of the local
\* user, so the response lists what that cart holds when the response is built
handleCheckout(st, body, userId, t) ==
  LET r == LookupUser(st, userId)
      user == r.user
      orderId == MakeOrderId(userId, t)
      total == Cart_getTotal(user.cart)
      purchaseRecords ==
        [i \in 1..Len(user.cart) |->
           PurchaseRecord(user.cart[i].productId, user.cart[i].name,
                          user.cart[i].price, user.cart[i].quantity)]
      purchaseSaved == Mongo_addPurchase(st, userId, purchaseRecords, orderId, total, t)
      local == IF st.connected THEN user
               ELSE [user EXCEPT
                       !.history = PurchaseHistory_recordPurchases(@, purchaseRecords),
                       !.cart = Cart_clear(@)]
      after == IF st.connected THEN Mongo_clearCart(purchaseSaved.st, userId).st
               ELSE [st EXCEPT !.users[KeyById(st, userId)] = local]
  IN  IF ~r.found THEN Failure(st, "User not found")
      ELSE IF Cart_isEmpty(user.cart) THEN Failure(st, "Cart is empty")
      ELSE IF ~body.valid THEN Failure(st, "Invalid request data")
      ELSE IF ~body.hasShipping \/ ~body.hasPayment
           THEN Failure(st, "Shipping address and payment method are required")
      ELSE IF st.connected /\ ~purchaseSaved.ok
           THEN Failure(purchaseSaved.st, "Failed to save purchase")
      ELSE [st |-> after,
            out |-> Response(TRUE, "Checkout successful",
                             [order |-> [orderId |-> orderId,
                                         purchasedAt |-> to_string(t),
                                         total |-> total,
                                         items |-> ItemList(local.cart),
                                         shippingAddress |-> body.shippingAddress,
                                         paymentSummary |-> PaymentSummary(body)]])]

----------------------------------------------------------------------------
(* Server.cpp: purchase history and profile handlers                       *)

\* Server::handleGetPurchaseHistory: with MongoDB one entry per order
\* document of the user, else all purchases of the user as one order
handleGetPurchaseHistory(st, userId, t) ==
  LET orders == Mongo_getPurchaseHistory(st, userId).orders
      r == LookupUser(st, userId)
      purchases == r.user.history
  IN  IF st.connected
      THEN [st |-> st,
            out |-> Response(TRUE, "",
                             [history |->
                                [i \in 1..Len(orders) |->
                                   [orderId |-> orders[i]._id,
                                    purchasedAt |-> orders[i].timestamp,
                                    items |-> [j \in 1..Len(orders[i].items) |->
                                                 [productId |-> orders[i].items[j].productId,
                                                  name |-> orders[i].items[j].name,
                                                  price |-> orders[i].items[j].price,
                                                  quantity |-> orders[i].items[j].quantity,
                                                  subtotal |-> orders[i].items[j].subtotal]],
                                    total |-> orders[i].total]]])]
      ELSE IF ~r.found THEN Failure(st, "User not found")
      ELSE [st |-> st,
            out |-> Response(TRUE, "",
                             [history |->
                                IF purchases = << >> THEN << >>
                                ELSE << [orderId |-> MakeOrderId(userId, t),
                                         purchasedAt |-> to_string(t),
                                         items |-> [j \in 1..Len(purchases) |->
                                                      [productId |-> purchases[j].id,
                                                       name |-> purchases[j].name,
                                                       price |-> purchases[j].price,
                                                       quantity |-> purchases[j].quantity]],
                                         total |-> PurchaseHistory_getTotalSpent(purchases)]
                                     >>])]

\* the "profile" object of a response: the keys it has
ProfileObject(user, keys) ==
  [k \in keys |-> IF k = "fullName" THEN user.fullName ELSE user.bio]

\* Server::handleGetProfile
handleGetProfile(st, userId) ==
  LET r == LookupUser(st, userId)
      keys == IF r.user.fullName = << >> THEN {}
              ELSE IF r.user.bio = << >> THEN {"fullName"}
              ELSE {"fullName", "bio"}
  IN  IF ~r.found THEN Failure(st, "User not found")
      ELSE [st |-> st,
            out |-> Response(TRUE, "",
                             [user |-> [id |-> r.user.id, username |-> r.user.username,
                                        email |-> r.user.email],
                              profile |-> ProfileObject(r.user, keys)])]

\* handleUpdateProfile, the username field: the user, the errors, hasUpdates
ApplyUsername(st, body, userId, acc) ==
  LET validation == validateUsername(body.username)
      usernameExists ==
        IF st.connected
        THEN /\ Mongo_findUserByUsername(st, validation.value).found
             /\ Mongo_findUserByUsername(st, validation.value).user.id # userId
        ELSE /\ validation.value \in DOMAIN st.users
             /\ st.users[validation.value].id # userId
  IN  IF body.username = << >> \/ body.username = acc.user.username THEN acc
      ELSE IF ~validation.valid
           THEN [acc EXCEPT !.errors = Append(@, validation.error)]
      ELSE IF usernameExists
           THEN [acc EXCEPT !.errors = Append(@, "Username already taken")]
      ELSE [acc EXCEPT !.user.username = validation.value, !.hasUpdates = TRUE]

\* handleUpdateProfile, the email field
ApplyEmail(st, body, userId, acc) ==
  LET validation == validateEmail(body.email)
      emailExists ==
        IF st.connected
        THEN /\ Mongo_findUserByEmail(st, validation.value).found
             /\ Mongo_findUserByEmail(st, validation.value).user.id # userId
        ELSE \E k \in DOMAIN st.users :
               /\ toLower(st.users[k].email) = toLower(validation.value)
               /\ st.users[k].id # userId
  IN  IF body.email = << >> \/ body.email = acc.user.email THEN acc
      ELSE IF ~validation.valid
           THEN [acc EXCEPT !.errors = Append(@, validation.error)]
      ELSE IF emailExists
           THEN [acc EXCEPT !.errors = Append(@, "Email already taken")]
      ELSE [acc EXCEPT !.user.email = validation.value, !.hasUpdates = TRUE]

\* handleUpdateProfile, the password field
ApplyPassword(body, acc) ==
  LET validation == validatePassword(body.password)
  IN  IF body.password = << >> THEN acc
      ELSE IF ~validation.valid
           THEN [acc EXCEPT !.errors = Append(@, validation.error)]
      ELSE [acc EXCEPT !.user.password = hashPassword(validation.value),
                       !.hasUpdates = TRUE]

\* handleUpdateProfile, the fullName and bio fields
ApplyProfile(body, acc) ==
  LET validation == validateProfile(body.fullName, body.bio)
  IN  IF body.fullName = << >> /\ body.bio = << >> THEN acc
      ELSE IF ~validation.valid
           THEN [acc EXCEPT !.errors = Append(@, validation.error)]
      ELSE [acc EXCEPT
              !.user.fullName = IF body.fullName # << >> THEN body.fullName ELSE @,
              !.user.bio = IF body.bio # << >> THEN body.bio ELSE @,
              !.hasUpdates = TRUE]

\* Server::handleUpdateProfile.  Without MongoDB oldUsername is read from the
\* user after the new name is in it, so no key of the users map is erased.
handleUpdateProfile(st, body, userId, t) ==
  LET r == LookupUser(st, userId)
      acc == ApplyProfile(body,
               ApplyPassword(body,
                 ApplyEmail(st, body, userId,
                   ApplyUsername(st, body, userId,
                     [user |-> r.user, errors |-> << >>, hasUpdates |-> FALSE]))))
      user == acc.user
      updated == Mongo_updateUser(st, userId, user)
      oldUsername == user.username
      erased == IF oldUsername # user.username /\ oldUsername \in DOMAIN st.users
                THEN MapErase(st.users, oldUsername)
                ELSE st.users
      token == MakeToken(user.username, t)
      keys == (IF user.fullName # << >> THEN {"fullName"} ELSE {}) \cup
              (IF user.bio # << >> THEN {"bio"} ELSE {})
      after == IF st.connected THEN Mongo_saveToken(updated.st, token, user.id, t).st
               ELSE [st EXCEPT !.users = MapPut(erased, user.username, user),
                               !.tokens = MapPut(@, token, user.id)]
  IN  IF ~r.found THEN Failure(st, "User not found")
      ELSE IF acc.errors # << >> THEN Failure(st, acc.errors[1])
      ELSE IF ~acc.hasUpdates THEN Failure(st, "No profile changes detected")
      ELSE IF st.connected /\ ~updated.ok
           THEN Failure(updated.st, "Failed to update user in database")
      ELSE [st |-> after,
            out |-> Response(TRUE, "Profile updated successfully",
                             [token |-> token,
                              user |-> [id |-> user.id, username |-> user.username,
                                        email |-> user.email],
                              profile |-> ProfileObject(user, keys)])]

----------------------------------------------------------------------------
(* Server::start: the routes.  A route takes the store, the Authorization  *)
(* header and the request, and gives the store, the status and the body.   *)

Reply(st, code, body) == [st |-> st, status |-> code, out |-> body]

\* res.status is 200 unless the route sets it
Ok(r) == Reply(r.st, 200, r.out)

Unauthorized(st) == Reply(st, 401, Response(FALSE, "Access token required", << >>))

\* a plausible slip: an authenticate that takes the token without looking
\* at the scheme
authenticate_AnyScheme(st, authHeader) ==
  getUserIdFromToken(st, SubSeq(authHeader, Len(sBearer) + 1, Len(authHeader)))

\* the authenticate lambda: authHeader.find("Bearer ") == 0, substr(7)
authenticate(st, authHeader) ==
  IF StartsWith(authHeader, sBearer)
  THEN getUserIdFromToken(st, SubSeq(authHeader, Len(sBearer) + 1, Len(authHeader)))
  ELSE << >>

\* POST /api/signup, POST /api/login
Route_signup(st, body, t) == Ok(handleSignup(st, body, t))

Route_login(st, body, t) == Ok(handleLogin(st, body, t))

\* GET /api/me
Route_me(st, authHeader) ==
  LET userId == authenticate(st, authHeader)
  IN  IF userId = << >> THEN Unauthorized(st) ELSE Ok(handleGetProfile(st, userId))

\* GET /api/cart
Route_cartGet(st, authHeader) ==
  LET userId == authenticate(st, authHeader)
  IN  IF userId = << >> THEN Unauthorized(st) ELSE Ok(handleGetCart(st, userId))

\* POST /api/cart: res.status = 201
Route_cartAdd(st, authHeader, body) ==
  LET userId == authenticate(st, authHeader)
      r == handleAddToCart(st, body, userId)
  IN  IF userId = << >> THEN Unauthorized(st) ELSE Reply(r.st, 201, r.out)

\* PATCH /api/cart/<productId>
Route_cartUpdate(st, authHeader, productId, body) ==
  LET userId == authenticate(st, authHeader)
  IN  IF userId = << >> THEN Unauthorized(st)
      ELSE Ok(handleUpdateCart(st, productId, ParseQuantity(body.quantity), userId))

\* DELETE /api/cart/<productId>
Route_cartDelete(st, authHeader, productId) ==
  LET userId == authenticate(st, authHeader)
  IN  IF userId = << >> THEN Unauthorized(st)
      ELSE Ok(handleRemoveFromCart(st, productId, userId))

\* POST /api/cart/clear
Route_cartClear(st, authHeader) ==
  LET userId == authenticate(st, authHeader)
  IN  IF userId = << >> THEN Unauthorized(st) ELSE Ok(handleClearCart(st, userId))

\* POST /api/cart/checkout
Route_checkout(st, authHeader, body, t) ==
  LET userId == authenticate(st, authHeader)
  IN  IF userId = << >> THEN Unauthorized(st) ELSE Ok(handleCheckout(st, body, userId, t))

\* GET /api/purchase-history
Route_purchaseHistory(st, authHeader, t) ==
  LET userId == authenticate(st, authHeader)
  IN  IF userId = << >> THEN Unauthorized(st)
      ELSE Ok(handleGetPurchaseHistory(st, userId, t))

\* PATCH /api/profile
Route_profile(st, authHeader, body, t) ==
  LET userId == authenticate(st, authHeader)
  IN  IF userId = << >> THEN Unauthorized(st)
      ELSE Ok(handleUpdateProfile(st, body, userId, t))

----------------------------------------------------------------------------
(* The server as a state machine: one action per route                     *)

Store ==
  [connected |-> connected, users |-> users, tokens |-> tokens,
   dbUsers |-> dbUsers, dbOrders |-> dbOrders, dbTokens |-> dbTokens]

\* the token strings that resolve
IssuedTokens(st) ==
  (DOMAIN st.tokens) \cup {st.dbTokens[i].token : i \in 1..Len(st.dbTokens)}

\* the stores within the bounds of the model
WithinBounds(st) ==
  /\ Cardinality(DOMAIN st.users) <= MaxUsers
  /\ Len(st.dbUsers) <= MaxUsers
  /\ Cardinality(IssuedTokens(st)) <= MaxTokens
  /\ \A k \in DOMAIN st.users :
       /\ Len(st.users[k].history) <= MaxHistory
       /\ \A i \in 1..Len(st.users[k].cart) :
            /\ st.users[k].cart[i].quantity[1] = 0
            /\ st.users[k].cart[i].quantity[2] <= MaxQty
  /\ \A d \in 1..Len(st.dbUsers) :
       /\ Len(st.dbUsers[d].purchaseHistory) <= MaxHistory
       /\ \A i \in 1..Len(st.dbUsers[d].cart) :
            /\ st.dbUsers[d].cart[i].quantity >= 0
            /\ st.dbUsers[d].cart[i].quantity <= MaxQty

\* a request is served: the store and the response it leaves
Serve(route, r) ==
  /\ WithinBounds(r.st)
  /\ users' = r.st.users
  /\ tokens' = r.st.tokens
  /\ dbUsers' = r.st.dbUsers
  /\ dbOrders' = r.st.dbOrders
  /\ dbTokens' = r.st.dbTokens
  /\ resp' = [route |-> route, status |-> r.status, body |-> r.out]
  /\ UNCHANGED <<connected, now, cartVars, pairVars, unitVars, serviceVars>>

\* more strings of the requests
sBob == <<"b", "o", "b">>
sAmy == <<"a", "m", "y">>
sBo == <<"b", "o">>
sAbc == <<"a", "b", "c">>
sAl == <<"A", "l">>
sOtherEmail == <<"b", "@", "x", ".", "i", "o">>
sVariantEmail ==
  <<" ", "T", "e", "s", "t", "@", "E", "x", "a", "m", "p", "l", "e", ".", "c", "o", "m">>
sLowerBearer == <<"b", "e", "a", "r", "e", "r", " ">>
sNoToken == <<"t", "o", "k", "e", "n", "_", "x">>
sCard4 == <<"1", "2", "3", "4">>
sCard5 == <<"9", "1", "2", "3", "4">>
sCard5b == <<"8", "1", "2", "3", "4">>

\* the Authorization headers of the requests: none, an unknown token, and
\* each issued token under "Bearer " and under "bearer "
AuthHeaders(st) ==
  {<< >>, sBearer \o sNoToken}
    \cup {sBearer \o tok : tok \in IssuedTokens(st)}
    \cup {sLowerBearer \o tok : tok \in IssuedTokens(st)}

SignupBody(name, mail, pass) == [username |-> name, email |-> mail, password |-> pass]

LoginBody(name, pass) == [username |-> name, password |-> pass]

ProfileBody(name, mail, pass, full, about) ==
  [username |-> name, email |-> mail, password |-> pass, fullName |-> full, bio |-> about]

CartBody(id, qty) == [productId |-> id, quantity |-> qty]

CheckoutBody(parses, shipping, payment, card, cardNum) ==
  [valid |-> parses, hasShipping |-> shipping, shippingAddress |-> "1 Main St",
   hasPayment |-> payment, hasCard |-> card, cardNumber |-> cardNum,
   hasName |-> payment, cardholderName |-> "T User"]

\* the state after Server::Server: testuser unless MongoDB is connected
Init ==
  /\ connected \in BOOLEAN
  /\ users = IF connected THEN EmptyMap
             ELSE MapPut(EmptyMap, sTestuser,
                         User(<<"1">>, sTestuser, sTestEmail, sTestpass,
                              << >>, << >>, << >>, << >>))
  /\ tokens = EmptyMap
  /\ dbUsers = << >>
  /\ dbOrders = << >>
  /\ dbTokens = << >>
  /\ now = 0
  /\ resp = [route |-> "none", status |-> 0, body |-> Response(TRUE, "", << >>)]
  /\ cart = << >>
  /\ cartRet = [op |-> "new", result |-> TRUE]
  /\ adds = << >>
  /\ nOps = 0
  /\ purchaseHistory = << >>
  /\ inventory = << >>
  /\ balance = 0
  /\ probe = << >>
  /\ memServer = << >>
  /\ docServer = << >>
  /\ threads = << >>
  /\ call = << >>

\* a second passes
Tick ==
  /\ now < MaxTime
  /\ now' = now + 1
  /\ UNCHANGED <<connected, users, tokens, dbUsers, dbOrders, dbTokens, resp,
                 cartVars, pairVars, unitVars, serviceVars>>

----------------------------------------------------------------------------
(* Accounts: signup, login, profile                                        *)

SignupBodies ==
  { SignupBody(sBob, sVariantEmail, sTestpass),
    SignupBody(sAdmin, sOtherEmail, sTestpass),
    SignupBody(sAmy, sTestEmail, sTestpass),
    SignupBody(sBob, sOtherEmail, sAbc),
    SignupBody(<< >>, sOtherEmail, sTestpass) }

LoginBodies ==
  { LoginBody(sTestuser, sTestpass),
    LoginBody(sAdmin, sAdmin123),
    LoginBody(sBob, sTestpass),
    LoginBody(sTestEmail, sTestpass),
    LoginBody(sTestuser, sAbc),
    LoginBody(<< >>, sTestpass) }

ProfileBodies ==
  { ProfileBody(sAmy, << >>, << >>, << >>, << >>),
    ProfileBody(<< >>, sVariantEmail, << >>, << >>, << >>),
    ProfileBody(sBo, << >>, << >>, sAl, << >>),
    ProfileBody(<< >>, << >>, << >>, sAl, << >>),
    ProfileBody(<< >>, << >>, << >>, << >>, << >>) }

\* POST /api/signup
Signup == \E body \in SignupBodies : Serve("signup", Route_signup(Store, body, now))

\* POST /api/login
Login == \E body \in LoginBodies : Serve("login", Route_login(Store, body, now))

\* GET /api/me
Me == \E h \in AuthHeaders(Store) : Serve("me", Route_me(Store, h))

\* PATCH /api/profile
Profile ==
  \E h \in AuthHeaders(Store), body \in ProfileBodies :
    Serve("profile", Route_profile(Store, h, body, now))

AccountNext == Signup \/ Login \/ Me \/ Profile \/ Tick

AccountSpec == Init /\ [][AccountNext]_vars

----------------------------------------------------------------------------
(* The shop: cart, checkout, purchase history                              *)

ShopSignupBodies == { SignupBody(sTestuser, sOtherEmail, sTestpass) }

ShopLoginBodies == { LoginBody(sTestuser, sTestpass), LoginBody(sAdmin, sAdmin123) }

CartBodies ==
  { CartBody("ITEM002", << >>), CartBody("ITEM014", <<"0">>), CartBody("ITEM999", << >>) }

QuantityBodies == { [quantity |-> <<"0">>], [quantity |-> << >>] }

CheckoutBodies ==
  { CheckoutBody(FALSE, FALSE, FALSE, FALSE, << >>),
    CheckoutBody(TRUE, TRUE, FALSE, FALSE, << >>),
    CheckoutBody(TRUE, FALSE, TRUE, FALSE, << >>),
    CheckoutBody(TRUE, TRUE, TRUE, FALSE, << >>),
    CheckoutBody(TRUE, TRUE, TRUE, TRUE, sCard4),
    CheckoutBody(TRUE, TRUE, TRUE, TRUE, sCard5),
    CheckoutBody(TRUE, TRUE, TRUE, TRUE, sCard5b) }

ShopSignup ==
  \E body \in ShopSignupBodies : Serve("signup", Route_signup(Store, body, now))

ShopLogin ==
  \E body \in ShopLoginBodies : Serve("login", Route_login(Store, body, now))

\* GET /api/cart
CartGet == \E h \in AuthHeaders(Store) : Serve("cartGet", Route_cartGet(Store, h))

\* POST /api/cart
CartAdd ==
  \E h \in AuthHeaders(Store), body \in CartBodies :
    Serve("cartAdd", Route_cartAdd(Store, h, body))

\* PATCH /api/cart/<productId>
CartUpdate ==
  \E h \in AuthHeaders(Store), body \in QuantityBodies :
    Serve("cartUpdate", Route_cartUpdate(Store, h, "ITEM002", body))

\* DELETE /api/cart/<productId>
CartDelete ==
  \E h \in AuthHeaders(Store) : Serve("cartDelete", Route_cartDelete(Store, h, "ITEM014"))

\* POST /api/cart/clear
CartClearAll == \E h \in AuthHeaders(Store) : Serve("cartClear", Route_cartClear(Store, h))

\* POST /api/cart/checkout
Checkout ==
  \E h \in AuthHeaders(Store), body \in CheckoutBodies :
    Serve("checkout", Route_checkout(Store, h, body, now))

\* GET /api/purchase-history
PurchaseHistory ==
  \E h \in AuthHeaders(Store) :
    Serve("purchaseHistory", Route_purchaseHistory(Store, h, now))

ShopNext ==
  \/ ShopSignup
  \/ ShopLogin
  \/ Me
  \/ CartGet
  \/ CartAdd
  \/ CartUpdate
  \/ CartDelete
  \/ CartClearAll
  \/ Checkout
  \/ PurchaseHistory
  \/ Tick

ShopSpec == Init /\ [][ShopNext]_vars

----------------------------------------------------------------------------
(* Claims about accounts, under AccountSpec                                *)

\* the user records of the active store
ActiveUsers(st) ==
  IF st.connected
  THEN {[key |-> <<"doc", i>>, username |-> st.dbUsers[i].username,
         email |-> st.dbUsers[i].email] : i \in 1..Len(st.dbUsers)}
  ELSE {[key |-> <<"key", k>>, username |-> st.users[k].username,
         email |-> st.users[k].email] : k \in DOMAIN st.users}

\* an email after trimming surrounding whitespace and lowercasing
NormalizedEmail(email) == toLower(trim(email))

\* C3: a signup whose email, trimmed and lowercased, equals the trimmed and
\* lowercased email of a user the store already holds fails, whatever the
\* username, and adds no user record.
C3_SignupRejectsKnownEmail ==
  \A body \in SignupBodies :
    (\E u \in ActiveUsers(Store) : NormalizedEmail(u.email) = NormalizedEmail(body.email))
      => /\ ~Route_signup(Store, body, now).out.success
         /\ ActiveUsers(Route_signup(Store, body, now).st) = ActiveUsers(Store)

\* C4: no two distinct user records of the active store share a username,
\* and no two share an email compared case-insensitively after trimming.
C4_UniqueUsernamesAndEmails ==
  \A u, v \in ActiveUsers(Store) :
    u.key # v.key
      => /\ u.username # v.username
         /\ NormalizedEmail(u.email) # NormalizedEmail(v.email)

\* the store after a step
StoreNext ==
  [connected |-> connected', users |-> users', tokens |-> tokens',
   dbUsers |-> dbUsers', dbOrders |-> dbOrders', dbTokens |-> dbTokens']

\* C10: a token that resolves to a userId resolves to the same userId after
\* every later request, login, signup and profile update included.
C10_TokensKeepTheirUser ==
  [][\A tok \in IssuedTokens(Store) :
       getUserIdFromToken(Store, tok) # << >>
         => getUserIdFromToken(StoreNext, tok) = getUserIdFromToken(Store, tok)]_vars

----------------------------------------------------------------------------
(* Claims about checkout and the authenticated routes, under ShopSpec      *)

\* the stored user records, carts and purchase histories included
StoredUsers(st) == IF st.connected THEN st.dbUsers ELSE st.users

\* the userIds the issued tokens resolve to
Shoppers(st) == {getUserIdFromToken(st, tok) : tok \in IssuedTokens(st)} \ {<< >>}

\* one record per cart entry, in cart order
RecordsOf(items) ==
  [i \in 1..Len(items) |->
     PurchaseRecord(items[i].productId, items[i].name, items[i].price, items[i].quantity)]

\* C5: a checkout succeeds only if the cart of the user is not empty and the
\* body parses and has shippingAddress and paymentMethod; a rejected checkout
\* leaves every stored cart and purchase history as it was.
C5_CheckoutRejections ==
  \A userId \in Shoppers(Store), body \in CheckoutBodies :
    LET r == handleCheckout(Store, body, userId, now)
    IN  /\ r.out.success
          => /\ LookupUser(Store, userId).found
             /\ LookupUser(Store, userId).user.cart # << >>
             /\ body.valid /\ body.hasShipping /\ body.hasPayment
        /\ ~r.out.success => StoredUsers(r.st) = StoredUsers(Store)

\* a checkout of a non-empty cart was rejected for a missing field
C5_Witness ==
  /\ resp.route = "checkout"
  /\ resp.status = 200
  /\ ~resp.body.success
  /\ resp.body.message = "Shipping address and payment method are required"
  /\ \E userId \in Shoppers(Store) : LookupUser(Store, userId).user.cart # << >>

\* C6: after a successful checkout the stored cart of the user is empty and
\* the stored purchase history is the history before, followed by one record
\* per former cart entry (same id, name, price, quantity), in cart order.
C6_CheckoutMovesCartToHistory ==
  \A userId \in Shoppers(Store), body \in CheckoutBodies :
    LET r == handleCheckout(Store, body, userId, now)
        before == LookupUser(Store, userId).user
        after == LookupUser(r.st, userId)
    IN  r.out.success
          => /\ after.found
             /\ after.user.cart = << >>
             /\ after.user.history = before.history \o RecordsOf(before.cart)

\* a checkout has succeeded and left an empty cart and a history of two
\* records, for two different products
C6_Witness ==
  /\ resp.route = "checkout"
  /\ resp.body.success
  /\ \E userId \in Shoppers(Store) :
       /\ LookupUser(Store, userId).user.cart = << >>
       /\ Len(LookupUser(Store, userId).user.history) = 2
       /\ LookupUser(Store, userId).user.history[1].id
            # LookupUser(Store, userId).user.history[2].id

\* C7: on both backends the response of a successful checkout lists every
\* entry the cart held when the checkout began (productId, name, price,
\* quantity) and its total is the sum of price x quantity over those entries.
C7_CheckoutResponseListsCart ==
  \A userId \in Shoppers(Store), body \in CheckoutBodies :
    LET r == handleCheckout(Store, body, userId, now)
        before == LookupUser(Store, userId).user
    IN  r.out.success
          => /\ r.out.data.order.items = ItemList(before.cart)
             /\ r.out.data.order.total = SumSubtotals(before.cart, ZeroAmount)

\* the last four digits of a card number (all of it when it is shorter)
Last4(cardNumber) ==
  SubSeq(cardNumber, IF Len(cardNumber) > 4 THEN Len(cardNumber) - 3 ELSE 1,
         Len(cardNumber))

\* two bodies that differ at most in the card-number digits before the last four
SameButCardPrefix(b1, b2) ==
  /\ b1.hasCard /\ b2.hasCard
  /\ [b1 EXCEPT !.cardNumber = << >>] = [b2 EXCEPT !.cardNumber = << >>]
  /\ Last4(b1.cardNumber) = Last4(b2.cardNumber)

\* C8 as stated: two checkouts from the same state that differ only in the
\* card-number digits before the last four give the same response and the
\* same stored state.
C8_Original ==
  \A h \in AuthHeaders(Store), b1, b2 \in CheckoutBodies :
    SameButCardPrefix(b1, b2)
      => Route_checkout(Store, h, b1, now) = Route_checkout(Store, h, b2, now)

\* C8: the same, for two card numbers that are both longer than four digits
\* or both not; and a response never carries more of the card number than
\* its last four digits, and none of it when it has four digits or fewer.
C8_MaskedCard ==
  \A h \in AuthHeaders(Store), b1, b2 \in CheckoutBodies :
    LET r == Route_checkout(Store, h, b1, now)
    IN  /\ (SameButCardPrefix(b1, b2)
              /\ (Len(b1.cardNumber) > 4 <=> Len(b2.cardNumber) > 4))
             => r = Route_checkout(Store, h, b2, now)
        /\ r.out.success /\ "last4" \in DOMAIN r.out.data.order.paymentSummary
             => /\ Len(b1.cardNumber) > 4
                /\ r.out.data.order.paymentSummary["last4"] = Last4(b1.cardNumber)

\* a checkout with a card number of five digits has succeeded
C8_Witness ==
  /\ resp.route = "checkout"
  /\ resp.body.success
  /\ "last4" \in DOMAIN resp.body.data.order.paymentSummary
  /\ resp.body.data.order.paymentSummary["last4"] = sCard4

\* a header that is missing, does not start with "Bearer ", or carries a
\* token that resolves to no userId
Unauthenticated(st, h) ==
  \/ h = << >>
  \/ ~StartsWith(h, sBearer)
  \/ getUserIdFromToken(st, SubSeq(h, Len(sBearer) + 1, Len(h))) = << >>

\* C9: every authenticated route answers such a header with status 401 and
\* "Access token required" and leaves the store as it was.
C9_UnauthenticatedIs401 ==
  \A h \in AuthHeaders(Store) :
    Unauthenticated(Store, h)
      => /\ Route_me(Store, h) = Unauthorized(Store)
         /\ Route_cartGet(Store, h) = Unauthorized(Store)
         /\ \A body \in CartBodies : Route_cartAdd(Store, h, body) = Unauthorized(Store)
         /\ \A body \in QuantityBodies :
              Route_cartUpdate(Store, h, "ITEM002", body) = Unauthorized(Store)
         /\ Route_cartDelete(Store, h, "ITEM014") = Unauthorized(Store)
         /\ Route_cartClear(Store, h) = Unauthorized(Store)
         /\ \A body \in CheckoutBodies :
              Route_checkout(Store, h, body, now) = Unauthorized(Store)
         /\ Route_purchaseHistory(Store, h, now) = Unauthorized(Store)
         /\ \A body \in ProfileBodies :
              Route_profile(Store, h, body, now) = Unauthorized(Store)

\* a checkout was answered 401 while a token is issued whose user has a
\* cart to check out
C9_Witness ==
  /\ resp.route = "checkout"
  /\ resp.status = 401
  /\ resp.body = Response(FALSE, "Access token required", << >>)
  /\ \E userId \in Shoppers(Store) : LookupUser(Store, userId).user.cart # << >>

----------------------------------------------------------------------------
(* BackendSpec: two servers, one without MongoDB and one with it, are      *)
(* given the same requests at the same times                               *)

\* the store of a Server after Server::Server
NewStore(isConnected) ==
  [connected |-> isConnected,
   users |-> IF isConnected THEN EmptyMap
             ELSE MapPut(EmptyMap, sTestuser,
                         User(<<"1">>, sTestuser, sTestEmail, sTestpass,
                              << >>, << >>, << >>, << >>)),
   tokens |-> EmptyMap, dbUsers |-> << >>, dbOrders |-> << >>, dbTokens |-> << >>]

\* a server before its first request
NewServer(isConnected) ==
  [st |-> NewStore(isConnected), route |-> "none", status |-> 0,
   out |-> Response(TRUE, "", << >>)]

BackendInit ==
  /\ memServer = NewServer(FALSE)
  /\ docServer = NewServer(TRUE)
  /\ connected = FALSE
  /\ users = << >>
  /\ tokens = << >>
  /\ dbUsers = << >>
  /\ dbOrders = << >>
  /\ dbTokens = << >>
  /\ now = 0
  /\ resp = << >>
  /\ cart = << >>
  /\ cartRet = [op |-> "new", result |-> TRUE]
  /\ adds = << >>
  /\ nOps = 0
  /\ purchaseHistory = << >>
  /\ inventory = << >>
  /\ balance = 0
  /\ probe = << >>
  /\ threads = << >>
  /\ call = << >>

\* one request is served by both servers
ServeBoth(route, m, d) ==
  /\ WithinBounds(m.st)
  /\ WithinBounds(d.st)
  /\ memServer' = [st |-> m.st, route |-> route, status |-> m.status, out |-> m.out]
  /\ docServer' = [st |-> d.st, route |-> route, status |-> d.status, out |-> d.out]
  /\ UNCHANGED <<cartVars, serverVars, serviceVars, unitVars>>

\* the Authorization headers: none, and every token either server has issued
BackendHeaders ==
  {<< >>} \cup {sBearer \o tok : tok \in IssuedTokens(memServer.st)
                                        \cup IssuedTokens(docServer.st)}

BackendSignupBodies == { SignupBody(sBob, sOtherEmail, sTestpass) }

BackendLoginBodies == { LoginBody(sBob, sTestpass), LoginBody(sBob, sAbc) }

BackendCartBodies == { CartBody("ITEM002", << >>), CartBody("ITEM999", << >>) }

BackendCheckoutBodies ==
  { CheckoutBody(TRUE, TRUE, TRUE, TRUE, sCard5),
    CheckoutBody(TRUE, FALSE, TRUE, FALSE, << >>) }

BothSignup ==
  \E body \in BackendSignupBodies :
    ServeBoth("signup", Route_signup(memServer.st, body, now),
              Route_signup(docServer.st, body, now))

BothLogin ==
  \E body \in BackendLoginBodies :
    ServeBoth("login", Route_login(memServer.st, body, now),
              Route_login(docServer.st, body, now))

BothCartGet ==
  \E h \in BackendHeaders :
    ServeBoth("cartGet", Route_cartGet(memServer.st, h), Route_cartGet(docServer.st, h))

BothCartAdd ==
  \E h \in BackendHeaders, body \in BackendCartBodies :
    ServeBoth("cartAdd", Route_cartAdd(memServer.st, h, body),
              Route_cartAdd(docServer.st, h, body))

BothCartUpdate ==
  \E h \in BackendHeaders, body \in QuantityBodies :
    ServeBoth("cartUpdate", Route_cartUpdate(memServer.st, h, "ITEM002", body),
              Route_cartUpdate(docServer.st, h, "ITEM002", body))

BothCartDelete ==
  \E h \in BackendHeaders :
    ServeBoth("cartDelete", Route_cartDelete(memServer.st, h, "ITEM002"),
              Route_cartDelete(docServer.st, h, "ITEM002"))

BothCartClear ==
  \E h \in BackendHeaders :
    ServeBoth("cartClear", Route_cartClear(memServer.st, h),
              Route_cartClear(docServer.st, h))

BothCheckout ==
  \E h \in BackendHeaders, body \in BackendCheckoutBodies :
    ServeBoth("checkout", Route_checkout(memServer.st, h, body, now),
              Route_checkout(docServer.st, h, body, now))

BothPurchaseHistory ==
  \E h \in BackendHeaders :
    ServeBoth("purchaseHistory", Route_purchaseHistory(memServer.st, h, now),
              Route_purchaseHistory(docServer.st, h, now))

BackendNext ==
  \/ BothSignup
  \/ BothLogin
  \/ BothCartGet
  \/ BothCartAdd
  \/ BothCartUpdate
  \/ BothCartDelete
  \/ BothCartClear
  \/ BothCheckout
  \/ BothPurchaseHistory
  \/ Tick

BackendSpec == BackendInit /\ [][BackendNext]_vars

\* the cart a response carries: productId and quantity of every entry
CartSeen(out) ==
  IF "cart" \in DOMAIN out.data
  THEN [i \in 1..Len(out.data.cart) |->
          <<out.data.cart[i].productId, out.data.cart[i].quantity>>]
  ELSE << >>

\* the orders a purchase-history response carries: per order, productId and
\* quantity of every line; the JSON number of an unsigned quantity (packed)
\* and of a stored int32 are compared as numbers
OrdersSeen(out, packed) ==
  IF "history" \in DOMAIN out.data
  THEN [i \in 1..Len(out.data.history) |->
          [j \in 1..Len(out.data.history[i].items) |->
             <<out.data.history[i].items[j].productId,
               IF packed THEN ToInt32(out.data.history[i].items[j].quantity)
               ELSE out.data.history[i].items[j].quantity>>]]
  ELSE << >>

\* C11: given the same requests, the server on the in-process maps and the
\* server on the document store answer with the same status and the same
\* success or failure, the same cart contents, and the same list of
\* purchase-history orders, one order per checkout.
C11_BackendsAgree ==
  /\ memServer.status = docServer.status
  /\ memServer.out.success = docServer.out.success
  /\ CartSeen(memServer.out) = CartSeen(docServer.out)
  /\ OrdersSeen(memServer.out, TRUE) = OrdersSeen(docServer.out, FALSE)

----------------------------------------------------------------------------
(* MongoDBService called directly.  In CreateUserSpec createUser runs on   *)
(* the request threads of the HTTP server, one step per call to the        *)
(* database; in ServiceSpec createUser, updateUser and addPurchase are     *)
(* called one at a time.                                                   *)

Threads == {1, 2}

\* the calls to the database that createUser makes, in order
CreateUserSteps ==
  <<"findUsername", "findEmail", "scan", "finalEmail", "finalUsername", "insert">>

\* a thread that is not in createUser
IdleThread ==
  [pc |-> "idle", username |-> << >>, email |-> << >>, password |-> << >>,
   userId |-> << >>, alone |-> TRUE, result |-> FALSE]

sUpperEmail == <<" ", "B", "@", "X", ".", "i", "o">>

\* the arguments of the createUser calls: username, email, userId
CreateUserArgs ==
  { <<sBob, sOtherEmail, to_string(0) \o sUnderscore \o sBob>>,
    <<sAmy, sUpperEmail, to_string(0) \o sUnderscore \o sAmy>>,
    <<sBob, sTestEmail, to_string(1) \o sUnderscore \o sBob>> }

ServiceInit ==
  /\ connected = TRUE
  /\ users = EmptyMap
  /\ tokens = EmptyMap
  /\ dbUsers = << >>
  /\ dbOrders = << >>
  /\ dbTokens = << >>
  /\ now = 0
  /\ resp = << >>
  /\ threads = [t \in Threads |-> IdleThread]
  /\ call = [op |-> "none", ok |-> FALSE]
  /\ memServer = << >>
  /\ docServer = << >>
  /\ cart = << >>
  /\ cartRet = [op |-> "new", result |-> TRUE]
  /\ adds = << >>
  /\ nOps = 0
  /\ purchaseHistory = << >>
  /\ inventory = << >>
  /\ balance = 0
  /\ probe = << >>

\* a plausible slip: a createUser that never looks for the username
CreateUser_passes_NoUsername(st, th) ==
  LET normalizedEmail == toLower(trim(th.email))
  IN  CASE th.pc \in {"findUsername", "finalUsername"} -> TRUE
        [] th.pc \in {"findEmail", "finalEmail"} ->
             FirstDoc([n \in 1..Len(st.dbUsers) |->
                         st.dbUsers[n].email = normalizedEmail]) = 0
        [] th.pc = "scan" ->
             ~\E i \in 1..Len(st.dbUsers) :
                /\ st.dbUsers[i].email # << >>
                /\ toLower(trim(st.dbUsers[i].email)) = normalizedEmail
        [] OTHER ->
             FirstDoc([n \in 1..Len(st.dbUsers) |-> st.dbUsers[n]._id = th.userId]) = 0

\* createUser, one call to the database: TRUE when the call goes on (the
\* find_one or the iteration finds nothing, insert_one does not throw)
CreateUser_passes(st, th) ==
  LET normalizedEmail == toLower(trim(th.email))
  IN  CASE th.pc \in {"findUsername", "finalUsername"} ->
             FirstDoc([n \in 1..Len(st.dbUsers) |->
                         st.dbUsers[n].username = th.username]) = 0
        [] th.pc \in {"findEmail", "finalEmail"} ->
             FirstDoc([n \in 1..Len(st.dbUsers) |->
                         st.dbUsers[n].email = normalizedEmail]) = 0
        [] th.pc = "scan" ->
             ~\E i \in 1..Len(st.dbUsers) :
                /\ st.dbUsers[i].email # << >>
                /\ toLower(trim(st.dbUsers[i].email)) = normalizedEmail
        [] OTHER ->
             FirstDoc([n \in 1..Len(st.dbUsers) |-> st.dbUsers[n]._id = th.userId]) = 0

\* the document createUser inserts
NewUserDoc(th) ==
  [_id |-> th.userId, username |-> th.username, email |-> toLower(trim(th.email)),
   password |-> th.password, fullName |-> << >>, bio |-> << >>,
   cart |-> << >>, purchaseHistory |-> << >>]

\* the step after a step of createUser
NextStep(pc) ==
  CreateUserSteps[1 + CHOOSE i \in 1..Len(CreateUserSteps) : CreateUserSteps[i] = pc]

\* every createUser call in progress has seen the users collection change
Disturbed(ths) ==
  [t \in DOMAIN ths |-> IF ths[t].pc \in {"idle", "done"} THEN ths[t]
                        ELSE [ths[t] EXCEPT !.alone = FALSE]]

\* a request thread enters createUser: if (!connected) return false
CreateUserBegin(t) ==
  \E args \in CreateUserArgs :
    /\ threads[t].pc \in {"idle", "done"}
    /\ threads' = [threads EXCEPT ![t] =
                     [pc |-> IF connected THEN CreateUserSteps[1] ELSE "done",
                      username |-> args[1], email |-> args[2], password |-> sTestpass,
                      userId |-> args[3], alone |-> TRUE, result |-> FALSE]]
    /\ UNCHANGED <<call, cartVars, serverVars, pairVars, unitVars>>

\* one of the five lookups of createUser: return false, or go on
CreateUserCheck(t) ==
  /\ threads[t].pc \in {"findUsername", "findEmail", "scan", "finalEmail", "finalUsername"}
  /\ threads' = [threads EXCEPT ![t].pc =
                   IF CreateUser_passes(Store, threads[t]) THEN NextStep(@) ELSE "done"]
  /\ UNCHANGED <<call, cartVars, serverVars, pairVars, unitVars>>

\* users_collection.insert_one(user_doc): return true, or false when it throws
CreateUserInsert(t) ==
  /\ threads[t].pc = "insert"
  /\ Len(dbUsers) < MaxUsers
  /\ IF CreateUser_passes(Store, threads[t])
     THEN /\ dbUsers' = Append(dbUsers, NewUserDoc(threads[t]))
          /\ threads' = [Disturbed(threads) EXCEPT
                          ![t] = [threads[t] EXCEPT !.pc = "done", !.result = TRUE]]
     ELSE /\ dbUsers' = dbUsers
          /\ threads' = [threads EXCEPT ![t].pc = "done"]
  /\ UNCHANGED <<call, cartVars, pairVars, unitVars, connected, users, tokens, dbOrders,
                 dbTokens, now, resp>>

\* the carts that the calls of updateUser write
ServiceCarts ==
  { << >>,
    <<CartItem("ITEM002", "Wireless Mouse", 2999, U32(1)),
      CartItem("ITEM014", "HDMI Cable", 1499, U32(1))>> }

\* the records that the calls of addPurchase pass
ServicePurchases ==
  { << >>, <<PurchaseRecord("ITEM002", "Wireless Mouse", 2999, U32(1))>> }

sNoUser == <<"n", "o", "n", "e">>

\* the userIds of the calls: those of the stored users, and one of no user
ServiceUserIds == {dbUsers[i]._id : i \in 1..Len(dbUsers)} \cup {sNoUser}

\* updateUser(userId, user) with the user as read, its cart replaced
UpdateUser ==
  \E userId \in ServiceUserIds, items \in ServiceCarts :
    LET r == Mongo_findUserById(Store, userId)
        w == Mongo_updateUser(Store, userId, [r.user EXCEPT !.cart = items])
    IN  /\ r.found
        /\ WithinBounds(w.st)
        /\ dbUsers' = w.st.dbUsers
        /\ call' = [op |-> "updateUser", ok |-> w.ok]
        /\ UNCHANGED <<cartVars, pairVars, unitVars, threads, connected, users, tokens, dbOrders,
                       dbTokens, now, resp>>

\* addPurchase(userId, purchases, orderId, total)
AddPurchase ==
  \E userId \in ServiceUserIds, purchases \in ServicePurchases :
    LET w == Mongo_addPurchase(Store, userId, purchases, MakeOrderId(userId, now),
                               PurchaseHistory_getTotalSpent(purchases), now)
    IN  /\ WithinBounds(w.st)
        /\ dbUsers' = w.st.dbUsers
        /\ dbOrders' = w.st.dbOrders
        /\ call' = [op |-> "addPurchase", ok |-> w.ok]
        /\ UNCHANGED <<cartVars, pairVars, unitVars, threads, connected, users, tokens,
                       dbTokens, now, resp>>

\* createUser(username, email, password, userId), the whole call
CreateUser ==
  \E args \in CreateUserArgs :
    LET w == Mongo_createUser(Store, args[1], args[2], sTestpass, args[3])
    IN  /\ WithinBounds(w.st)
        /\ dbUsers' = w.st.dbUsers
        /\ call' = [op |-> "createUser", ok |-> w.ok]
        /\ UNCHANGED <<cartVars, pairVars, unitVars, threads, connected, users, tokens,
                       dbOrders, dbTokens, now, resp>>

ServiceNext == CreateUser \/ UpdateUser \/ AddPurchase \/ Tick

ServiceSpec == ServiceInit /\ [][ServiceNext]_vars

CreateUserNext ==
  \/ \E t \in Threads : CreateUserBegin(t)
  \/ \E t \in Threads : CreateUserCheck(t)
  \/ \E t \in Threads : CreateUserInsert(t)

CreateUserSpec == ServiceInit /\ [][CreateUserNext]_vars

----------------------------------------------------------------------------
(* Claims about MongoDBService, under ServiceSpec                          *)

\* Cart and PurchaseHistory values: what addItem and recordPurchase leave
AggregateCarts ==
  { << >>,
    AddEach(<< >>, <<CartItem("ITEM002", "Wireless Mouse", 2999, U32(1)),
                     CartItem("ITEM014", "HDMI Cable", 1499, U32(2))>>),
    AddEach(<< >>, <<CartItem("ITEM002", "Wireless Mouse", 2999, MaxU32)>>),
    AddEach(<< >>, <<CartItem("ITEM014", "HDMI Cable", 1499, U32(1)),
                     CartItem("ITEM002", "Wireless Mouse", 2999, MaxU32),
                     CartItem("ITEM002", "Wireless Mouse", 2999, U32(1))>>),
    AddEach(<< >>, <<CartItem("", "", 0, U32(1)),
                     CartItem("ITEM014", "HDMI Cable", 1499, U32(1))>>) }

AggregateHistories ==
  { << >>,
    RecordEach(<< >>, <<PurchaseRecord("ITEM014", "HDMI Cable", 1499, U32(2)),
                        PurchaseRecord("ITEM002", "Wireless Mouse", 2999, U32(1)),
                        PurchaseRecord("ITEM014", "HDMI Cable", 1499, U32(0))>>),
    RecordEach(<< >>, <<PurchaseRecord("ITEM002", "Wireless Mouse", 2999, MaxU32)>>),
    RecordEach(<< >>, <<PurchaseRecord("", "", 0, U32(1)),
                        PurchaseRecord("ITEM002", "Wireless Mouse", 2999, U32(1))>>) }

\* User values: a plain one, and one that differs from it in one member
PlainAggregate ==
  User(<< >>, sBob, sOtherEmail, sTestpass,
       AddEach(<< >>, <<CartItem("ITEM002", "Wireless Mouse", 2999, U32(1))>>),
       << >>, sAl, << >>)

Aggregates ==
  {[PlainAggregate EXCEPT !.cart = items] : items \in AggregateCarts}
    \cup {[PlainAggregate EXCEPT !.history = purchases] : purchases \in AggregateHistories}
    \cup {[PlainAggregate EXCEPT !.username = name] : name \in {sAmy, << >>}}
    \cup {[PlainAggregate EXCEPT !.email = mail] : mail \in {sVariantEmail, << >>}}

\* updateUser(userId, user), then findUserById(userId): what was read is
\* what was written, with the email lowercased
ReadsBack(st, userId, user) ==
  LET read == Mongo_findUserById(Mongo_updateUser(st, userId, user).st, userId)
  IN  /\ read.found
      /\ read.user.username = user.username
      /\ read.user.email = toLower(user.email)
      /\ read.user.cart = user.cart
      /\ read.user.history = user.history

\* C12 as stated: for every stored user and every User value, updateUser
\* followed by findUserById returns the username, the lowercased email, the
\* cart entries in order and the history records in order that were written.
C12_Original ==
  \A i \in 1..Len(dbUsers), user \in Aggregates : ReadsBack(Store, dbUsers[i]._id, user)

\* a User value that is read back whole: a username and an email, no cart
\* entry without a productId or with quantity 0, no record without an id
ReadableAggregate(user) ==
  /\ user.username # << >>
  /\ user.email # << >>
  /\ \A n \in 1..Len(user.cart) :
       user.cart[n].productId # "" /\ ~IsZero32(user.cart[n].quantity)
  /\ \A n \in 1..Len(user.history) : user.history[n].id # ""

\* C12: the same, for every User value with a username and an email whose
\* cart entries all have a productId and a quantity other than 0 and whose
\* history records all have an id; for any other User value the user is not
\* found, or the entries and records without these are missing.
C12_RoundTrip ==
  \A i \in 1..Len(dbUsers), user \in Aggregates :
    ReadableAggregate(user) <=> ReadsBack(Store, dbUsers[i]._id, user)

\* updateUser has written a cart of two entries to a user with a purchase
\* record, and findUserById reads both back
C12_Witness ==
  /\ call = [op |-> "updateUser", ok |-> TRUE]
  /\ \E i \in 1..Len(dbUsers) :
       /\ Len(dbUsers[i].cart) = 2
       /\ Len(dbUsers[i].purchaseHistory) = 1
       /\ Len(Mongo_findUserById(Store, dbUsers[i]._id).user.cart) = 2
       /\ Len(Mongo_findUserById(Store, dbUsers[i]._id).user.history) = 1

\* the records of the addPurchase calls the claim is checked for
PurchaseSets ==
  ServicePurchases \cup
    { <<PurchaseRecord("ITEM014", "HDMI Cable", 1499, U32(2)),
        PurchaseRecord("ITEM002", "Wireless Mouse", 2999, U32(1))>> }

\* the order document with the _id carries the userId, the total and one
\* line per record, in order
HoldsOrder(st, userId, purchases, orderId, total) ==
  \E n \in 1..Len(st.dbOrders) :
    /\ st.dbOrders[n]._id = orderId
    /\ \A m \in 1..Len(st.dbOrders) : st.dbOrders[m]._id = orderId => m = n
    /\ st.dbOrders[n].userId = userId
    /\ st.dbOrders[n].total = total
    /\ Len(st.dbOrders[n].items) = Len(purchases)
    /\ \A j \in 1..Len(purchases) :
         /\ st.dbOrders[n].items[j].id = purchases[j].id
         /\ st.dbOrders[n].items[j].name = purchases[j].name
         /\ st.dbOrders[n].items[j].price = purchases[j].price
         /\ st.dbOrders[n].items[j].quantity = ToInt32(purchases[j].quantity)

\* the stored history of the user is the one before, then the records
HistoryExtended(before, after, userId, purchases) ==
  \A i \in 1..Len(before.dbUsers) :
    before.dbUsers[i]._id = userId
      => /\ i <= Len(after.dbUsers)
         /\ after.dbUsers[i]._id = userId
         /\ after.dbUsers[i].purchaseHistory =
              before.dbUsers[i].purchaseHistory \o
                [j \in 1..Len(purchases) |->
                   [id |-> purchases[j].id, name |-> purchases[j].name,
                    price |-> purchases[j].price,
                    quantity |-> ToInt32(purchases[j].quantity)]]

----------------------------------------------------------------------------
(* Claims about createUser on concurrent request threads, under            *)
(* CreateUserSpec                                                          *)

\* the stored users with the username or with the normalized email of a call
Duplicates(st, th) ==
  {i \in 1..Len(st.dbUsers) :
     \/ st.dbUsers[i].username = th.username
     \/ NormalizedEmail(st.dbUsers[i].email) = NormalizedEmail(th.email)}

\* in this step thread t performs its insert and createUser returns true
InsertsUser(t) ==
  /\ threads[t].pc = "insert"
  /\ threads'[t].pc = "done"
  /\ threads'[t].result

----------------------------------------------------------------------------
(* Claims about updateQuantity, removeItem and addItem, under CartSpec     *)

\* the productIds the claims are checked for: those of the calls, and one
\* that is never in the Cart
ClaimProductIds == CartProductIds \cup {"ITEM003"}

\* C15: for every reachable Cart and every productId, updateQuantity(productId, 0)
\* leaves the same Cart and returns the same boolean as removeItem(productId).
C15_UpdateToZeroIsRemove ==
  \A id \in ClaimProductIds :
    Cart_updateQuantity(cart, id, U32(0)) = Cart_removeItem(cart, id)

\* updateQuantity(productId, 0) has returned true on a Cart of one entry
C15_Witness ==
  /\ cartRet.op = "updateQuantity"
  /\ cartRet.result
  /\ nOps = 2
  /\ cart = << >>

\* the entries of two Carts are the same except for the entry of the productId
SameButFor(before, after, productId) ==
  /\ Len(after) = Len(before)
  /\ \A i \in 1..Len(before) :
       IF before[i].productId = productId
       THEN [after[i] EXCEPT !.quantity = U32(0)] = [before[i] EXCEPT !.quantity = U32(0)]
       ELSE after[i] = before[i]

\* C16: updateQuantity(productId, q) returns false and leaves the Cart as it
\* was when productId is absent; when productId is present and q > 0 it
\* returns true, sets the quantity of that entry to exactly q and changes no
\* other entry.
C16_UpdateQuantity ==
  \A id \in ClaimProductIds, q \in CartQuantities :
    LET r == Cart_updateQuantity(cart, id, q)
    IN  IF EntriesOf(cart, id) = {}
        THEN ~r.result /\ r.items = cart
        ELSE ~IsZero32(q)
               => /\ r.result
                  /\ SameButFor(cart, r.items, id)
                  /\ \A i \in EntriesOf(r.items, id) : r.items[i].quantity = q

\* updateQuantity has returned true on a Cart of two entries and left both,
\* one with quantity 2
C16_Witness ==
  /\ cartRet.op = "updateQuantity"
  /\ cartRet.result
  /\ nOps = 3
  /\ Len(cart) = 2
  /\ cart[1].quantity = MaxU32
  /\ cart[2].quantity = U32(2)

\* C17: removeItem(productId) returns true if and only if an entry with the
\* productId was present; afterwards no entry has the productId and every
\* other entry is there as before, in the same order.
C17_RemoveItem ==
  \A id \in ClaimProductIds :
    LET r == Cart_removeItem(cart, id)
    IN  /\ r.result <=> EntriesOf(cart, id) # {}
        /\ EntriesOf(r.items, id) = {}
        /\ r.items = SelectSeq(cart, LAMBDA entry : entry.productId # id)

\* removeItem has returned true on a Cart of two entries and left the other
C17_Witness ==
  /\ cartRet.op = "removeItem"
  /\ cartRet.result
  /\ nOps = 3
  /\ Len(cart) = 1
  /\ cart[1].productId = "ITEM002"

\* C18: addItem with quantity 0 for a productId that has no entry creates no
\* entry and leaves the Cart exactly as it was.
C18_AddZeroIsNoOp ==
  \A id \in ClaimProductIds :
    EntriesOf(cart, id) = {} => Cart_addItem(cart, CartInputItem(id, U32(0))) = cart

\* addItem with quantity 0 was called for a productId without an entry on a
\* Cart that held another entry, and the Cart holds that entry alone
C18_Witness ==
  /\ nOps = 2
  /\ Len(adds) = 2
  /\ IsZero32(adds[2].quantity)
  /\ adds[2].productId # adds[1].productId
  /\ cart = <<adds[1]>>

Moduli == <<10007, 10009, 10037, 10039, 10061>>

\* an amount modulo m
RECURSIVE AmountMod(_, _)
AmountMod(digits, m) ==
  IF digits = << >> THEN 0 ELSE (Head(digits) + 256 * AmountMod(Tail(digits), m)) % m

\* the sum of price x quantity over the entries, modulo m
RECURSIVE SumMod(_, _)
SumMod(items, m) ==
  IF items = << >> THEN 0
  ELSE LET q == ((Head(items).quantity[1] % m) * (Half % m) + Head(items).quantity[2]) % m
       IN  (((Head(items).price % m) * q) + SumMod(Tail(items), m)) % m

\* C20: in every reachable Cart state getTotal() is the sum of price x
\* quantity over the entries, and it is 0 for an empty Cart, also after clear
\* and after the last entry was removed.
C20_TotalIsSum ==
  /\ \A d \in 1..Len(Cart_getTotal(cart)) : Cart_getTotal(cart)[d] \in 0..255
  /\ \A n \in 1..Len(Moduli) :
       AmountMod(Cart_getTotal(cart), Moduli[n]) = SumMod(cart, Moduli[n])
  /\ cart = << >> => Cart_getTotal(cart) = ZeroAmount
  /\ cartRet.op = "getTotal" => cartRet.result = Cart_getTotal(cart)

\* getTotal has returned 1049.99 for a Cart of two entries
C20_Witness ==
  /\ cartRet.op = "getTotal"
  /\ Len(cart) = 2
  /\ cartRet.result = <<39, 154, 1, 0, 0, 0, 0>>

----------------------------------------------------------------------------
(* HistorySpec: one PurchaseHistory, any sequence of its calls             *)

\* records of one history under test
MaxRecords == 4

HistoryProductIds == {"ITEM001", "ITEM002"}

\* the records passed in: two ids, and two quantities that tell records of
\* one id apart
HistoryRecords ==
  { PurchaseRecord(id, IF id = "ITEM001" THEN "Laptop" ELSE "Mouse",
                   IF id = "ITEM001" THEN 99999 ELSE 2999, U32(q)) :
      id \in HistoryProductIds, q \in 1..2 }

\* the vectors passed to recordPurchases: none, one or two records
HistoryBatches ==
  {<< >>} \cup { <<a>> : a \in HistoryRecords }
          \cup { <<a, b>> : a \in HistoryRecords, b \in HistoryRecords }

\* PurchaseHistory::PurchaseHistory
HistoryInit ==
  /\ purchaseHistory = << >>
  /\ probe = [op |-> "new", before |-> << >>, given |-> << >>]
  /\ inventory = << >>
  /\ balance = 0
  /\ cart = << >>
  /\ cartRet = [op |-> "new", result |-> TRUE]
  /\ adds = << >>
  /\ nOps = 0
  /\ connected = FALSE
  /\ users = << >>
  /\ tokens = << >>
  /\ dbUsers = << >>
  /\ dbOrders = << >>
  /\ dbTokens = << >>
  /\ now = 0
  /\ resp = << >>
  /\ memServer = << >>
  /\ docServer = << >>
  /\ threads = << >>
  /\ call = << >>

HistoryRecordPurchase ==
  \E item \in HistoryRecords :
    /\ Len(purchaseHistory) < MaxRecords
    /\ purchaseHistory' = PurchaseHistory_recordPurchase(purchaseHistory, item)
    /\ probe' = [op |-> "recordPurchase", before |-> purchaseHistory, given |-> <<item>>]
    /\ UNCHANGED <<inventory, balance, cartVars, serverVars, pairVars, serviceVars>>

HistoryRecordPurchases ==
  \E items \in HistoryBatches :
    /\ Len(purchaseHistory) + Len(items) <= MaxRecords
    /\ purchaseHistory' = PurchaseHistory_recordPurchases(purchaseHistory, items)
    /\ probe' = [op |-> "recordPurchases", before |-> purchaseHistory, given |-> items]
    /\ UNCHANGED <<inventory, balance, cartVars, serverVars, pairVars, serviceVars>>

HistoryClear ==
  /\ purchaseHistory' = PurchaseHistory_clear(purchaseHistory)
  /\ probe' = [op |-> "clear", before |-> purchaseHistory, given |-> << >>]
  /\ UNCHANGED <<inventory, balance, cartVars, serverVars, pairVars, serviceVars>>

HistoryHasPurchase ==
  \E id \in HistoryProductIds \cup {"ITEM003"} :
    /\ probe' = [op |-> "hasPurchase", before |-> purchaseHistory, given |-> <<id>>,
                 result |-> PurchaseHistory_hasPurchase(purchaseHistory, id)]
    /\ UNCHANGED <<purchaseHistory, inventory, balance, cartVars, serverVars, pairVars,
                   serviceVars>>

HistoryNext ==
  HistoryRecordPurchase \/ HistoryRecordPurchases \/ HistoryClear \/ HistoryHasPurchase

HistorySpec == HistoryInit /\ [][HistoryNext]_vars

\* how many records of a vector carry an id
CountOfId(records, id) == Cardinality({ i \in 1..Len(records) : records[i].id = id })

\* C21: after recordPurchase and after recordPurchases the records held before
\* the call are an unchanged prefix of the history, the records given follow
\* them in the given order, every id occurs as often as it did before plus as
\* often as it was given (nothing is merged), and hasPurchase(id) is true
\* exactly when some record of the history has that id.
C21_AppendOnly ==
  /\ probe.op \in {"recordPurchase", "recordPurchases"} =>
       /\ Len(purchaseHistory) = Len(probe.before) + Len(probe.given)
       /\ SubSeq(purchaseHistory, 1, Len(probe.before)) = probe.before
       /\ SubSeq(purchaseHistory, Len(probe.before) + 1, Len(purchaseHistory)) = probe.given
       /\ \A id \in HistoryProductIds :
            CountOfId(purchaseHistory, id) =
              CountOfId(probe.before, id) + CountOfId(probe.given, id)
  /\ probe.op = "hasPurchase" =>
       (probe.result <=>
          probe.given[1] \in { purchaseHistory[i].id : i \in 1..Len(purchaseHistory) })

\* a record of an id the history already held was recorded, and the history
\* holds both
C21_Witness ==
  /\ probe.op = "recordPurchase"
  /\ Len(probe.before) = 1
  /\ probe.given[1].id = probe.before[1].id
  /\ probe.given[1].quantity # probe.before[1].quantity
  /\ Len(purchaseHistory) = 2

----------------------------------------------------------------------------
(* Claims about POST /api/cart and POST /api/signup                        *)

\* the quantity of the entry of a product in a cart, 0 when it has none
QuantityOf(items, productId) ==
  IF \E i \in 1..Len(items) : items[i].productId = productId
  THEN LET i == CHOOSE k \in 1..Len(items) : items[k].productId = productId
       IN  items[i].quantity[1] * Half + items[i].quantity[2]
  ELSE 0

\* the "quantity" values of the requests: absent, and the numbers 0, 1, 5, 99,
\* 100 and -5
RequestedQuantities ==
  { << >>, <<"0">>, <<"1">>, <<"5">>, <<"9", "9">>, <<"1", "0", "0">>, <<"-", "5">> }

\* the number a request asks for: 1 when quantity is absent
Requested(qtyStr) == IF qtyStr = << >> THEN 1 ELSE stoi(qtyStr)

Min(a, b) == IF a < b THEN a ELSE b

Max(a, b) == IF a > b THEN a ELSE b

\* C22: POST /cart for a catalog product and an existing user increases the
\* quantity of that product in the cart of the user by exactly
\* min(max(q, 1), 99), q the requested quantity and 1 when it is absent; for
\* a productId that is not in the catalog the request is rejected with
\* 'Product not found' and the store is unchanged.
C22_AddToCartClamps ==
  \A userId \in Shoppers(Store), qtyStr \in RequestedQuantities,
     productId \in {"ITEM002", "ITEM014", "ITEM999"} :
    LET r == handleAddToCart(Store, CartBody(productId, qtyStr), userId)
        before == LookupUser(Store, userId).user.cart
        after == LookupUser(r.st, userId).user.cart
    IN  IF SearchService_getItemById(productId) = 0
        THEN /\ ~r.out.success
             /\ r.out.message = "Product not found"
             /\ r.st = Store
        ELSE LookupUser(Store, userId).found
               => QuantityOf(after, productId) =
                    QuantityOf(before, productId) + Min(Max(Requested(qtyStr), 1), 99)

\* the signup requests of the claim: those of AccountSpec, and two with a
\* missing email and a missing password
ClaimSignupBodies ==
  SignupBodies \cup { SignupBody(sBob, << >>, sTestpass), SignupBody(sBob, sOtherEmail, << >>) }

\* how many user records the active store holds
UserCount(st) == IF st.connected THEN Len(st.dbUsers) ELSE Cardinality(DOMAIN st.users)

\* the reason the claim gives for rejecting a signup, "" when it gives none:
\* a missing field, a short password, a username a stored record has, an
\* email a stored record has
SignupError(st, body) ==
  IF body.username = << >> \/ body.email = << >> \/ body.password = << >>
  THEN "Username, email, and password are required"
  ELSE IF Len(body.password) < 6 THEN "Password must be at least 6 characters long"
  ELSE IF \E u \in ActiveUsers(st) : u.username = body.username
       THEN "Username already exists"
  ELSE IF \E u \in ActiveUsers(st) : u.email = body.email
       THEN "Email already exists"
  ELSE ""

\* C23: a signup with a missing username, email or password, a password of
\* fewer than 6 characters, a username or an email that a stored user has is
\* rejected with the matching message; a rejected signup leaves the user
\* records and the tokens as they were; a successful signup adds exactly one
\* user record, keeps the others, and returns a token that resolves to the id
\* of the new user.
C23_SignupOutcomes ==
  \A body \in ClaimSignupBodies :
    LET r == handleSignup(Store, body, now)
    IN  /\ SignupError(Store, body) # ""
          => ~r.out.success /\ r.out.message = SignupError(Store, body)
        /\ ~r.out.success => r.st = Store
        /\ r.out.success
          => /\ UserCount(r.st) = UserCount(Store) + 1
             /\ ActiveUsers(Store) \subseteq ActiveUsers(r.st)
             /\ \E u \in ActiveUsers(r.st) \ ActiveUsers(Store) :
                  u.username = body.username
             /\ LookupUser(r.st, r.out.data.user.id).found
             /\ LookupUser(r.st, r.out.data.user.id).user.username = body.username
             /\ getUserIdFromToken(r.st, r.out.data.token) = r.out.data.user.id
             /\ IssuedTokens(r.st) = IssuedTokens(Store) \cup {r.out.data.token}

\* a signup was rejected for its email after another signup had succeeded
C23_Witness ==
  /\ resp.route = "signup"
  /\ ~resp.body.success
  /\ resp.body.message = "Email already exists"
  /\ \E u \in ActiveUsers(Store) : u.username = sBob

----------------------------------------------------------------------------
(* TokenSpec: a connected MongoDBService, any sequence of saveToken and    *)
(* getUserIdFromToken calls                                                *)

\* the token strings and the userIds passed to saveToken
TokenStrings == { MakeToken(sBob, 0), MakeToken(sAmy, 0), MakeToken(sBob, 1) }

TokenUserIds == { to_string(0) \o sUnderscore \o sBob, to_string(0) \o sUnderscore \o sAmy }

\* MongoDBService::MongoDBService and a connect() that succeeded
TokenInit ==
  /\ connected = TRUE
  /\ users = EmptyMap
  /\ tokens = EmptyMap
  /\ dbUsers = << >>
  /\ dbOrders = << >>
  /\ dbTokens = << >>
  /\ now = 0
  /\ resp = << >>
  /\ threads = << >>
  /\ call = [op |-> "none", ok |-> FALSE, token |-> << >>, userId |-> << >>,
             before |-> << >>]
  /\ memServer = << >>
  /\ docServer = << >>
  /\ cart = << >>
  /\ cartRet = [op |-> "new", result |-> TRUE]
  /\ adds = << >>
  /\ nOps = 0
  /\ purchaseHistory = << >>
  /\ inventory = << >>
  /\ balance = 0
  /\ probe = << >>

\* saveToken(token, userId)
SaveToken ==
  \E token \in TokenStrings, userId \in TokenUserIds :
    LET w == Mongo_saveToken(Store, token, userId, now)
    IN  /\ Len(w.st.dbTokens) <= MaxTokens
        /\ dbTokens' = w.st.dbTokens
        /\ call' = [op |-> "saveToken", ok |-> w.ok, token |-> token, userId |-> userId,
                    before |-> Mongo_getUserIdFromToken(Store, token)]
        /\ UNCHANGED <<cartVars, pairVars, unitVars, threads, connected, users, tokens,
                       dbUsers, dbOrders, now, resp>>

\* getUserIdFromToken(token)
GetUserIdFromToken ==
  \E token \in TokenStrings :
    /\ call' = [op |-> "getUserIdFromToken", ok |-> TRUE, token |-> token,
                userId |-> Mongo_getUserIdFromToken(Store, token), before |-> << >>]
    /\ UNCHANGED <<cartVars, pairVars, unitVars, threads, serverVars>>

TokenNext == SaveToken \/ GetUserIdFromToken \/ Tick

TokenSpec == TokenInit /\ [][TokenNext]_vars

\* the mappings of the tokens collection
TokenMappings(st) ==
  { <<st.dbTokens[i].token, st.dbTokens[i].userId>> : i \in 1..Len(st.dbTokens) }

\* C24: on a connected service, after saveToken(t, u) exactly one document
\* of the tokens collection has token t and getUserIdFromToken(t) returns u;
\* a second saveToken(t, u) leaves the mappings of the collection as the
\* first left them, and the whole collection when both calls fall in the
\* same second.
C24_SaveTokenIdempotent ==
  /\ call.op = "saveToken"
       => /\ call.ok
          /\ Cardinality({ i \in 1..Len(dbTokens) : dbTokens[i].token = call.token }) = 1
          /\ Mongo_getUserIdFromToken(Store, call.token) = call.userId
  /\ \A token \in TokenStrings, userId \in TokenUserIds, later \in now..MaxTime :
       LET once == Mongo_saveToken(Store, token, userId, now).st
           twice == Mongo_saveToken(once, token, userId, later).st
       IN  /\ TokenMappings(twice) = TokenMappings(once)
           /\ Len(twice.dbTokens) = Len(once.dbTokens)
           /\ later = now => twice = once

\* a token that was mapped to one user was saved for another, beside a
\* second token
C24_Witness ==
  /\ call.op = "saveToken"
  /\ call.before # << >>
  /\ call.before # call.userId
  /\ Len(dbTokens) = 2
  /\ dbTokens[2].token = call.token

----------------------------------------------------------------------------
(* SettingsSpec: the validators of SettingsService called on strings of    *)
(* every length around their limits                                        *)

\* the longest password and the longest username core that are passed in
MaxPasswordLen == 102
MaxUsernameLen == 32

\* std::string(n, c)
Repeat(c, n) == [i \in 1..n |-> c]

\* passwords: runs of one character, of every length
SettingsPasswords == { Repeat(c, n) : c \in {"a", "1"}, n \in 0..MaxPasswordLen }

\* usernames: a run of one character of every length, with up to two
\* whitespace characters before it and up to one after it
SettingsUsernames ==
  { Repeat(w, l) \o Repeat("a", n) \o Repeat(w, r) :
      w \in {" ", "\t"}, l \in 0..2, n \in 0..MaxUsernameLen, r \in 0..1 }

\* SettingsService::SettingsService
SettingsInit ==
  /\ probe = [op |-> "new", given |-> << >>, result |-> ValidationResult(TRUE, << >>, "")]
  /\ purchaseHistory = << >>
  /\ inventory = << >>
  /\ balance = 0
  /\ cart = << >>
  /\ cartRet = [op |-> "new", result |-> TRUE]
  /\ adds = << >>
  /\ nOps = 0
  /\ connected = FALSE
  /\ users = << >>
  /\ tokens = << >>
  /\ dbUsers = << >>
  /\ dbOrders = << >>
  /\ dbTokens = << >>
  /\ now = 0
  /\ resp = << >>
  /\ memServer = << >>
  /\ docServer = << >>
  /\ threads = << >>
  /\ call = << >>

ValidateUsername ==
  \E username \in SettingsUsernames :
    /\ probe' = [op |-> "validateUsername", given |-> username,
                 result |-> validateUsername(username)]
    /\ UNCHANGED <<purchaseHistory, inventory, balance, cartVars, serverVars, pairVars,
                   serviceVars>>

ValidatePassword ==
  \E password \in SettingsPasswords :
    /\ probe' = [op |-> "validatePassword", given |-> password,
                 result |-> validatePassword(password)]
    /\ UNCHANGED <<purchaseHistory, inventory, balance, cartVars, serverVars, pairVars,
                   serviceVars>>

SettingsNext == ValidateUsername \/ ValidatePassword

SettingsSpec == SettingsInit /\ [][SettingsNext]_vars

\* the words by which the tests recognise an error message
MessageWords(msg) ==
  CASE msg = "Password is required" -> {"required"}
    [] msg = "Password must be at least 6 characters long" -> {"6"}
    [] msg = "Username is required" -> {"required"}
    [] msg = "Username must be 3-30 characters" -> {"3-30"}
    [] OTHER -> {}

\* C25: validatePassword rejects the empty password with an error that
\* mentions 'required', rejects every password of fewer than 6 characters,
\* rejects every password of more than 100 characters with an error that
\* mentions 100, and accepts every password of 6 to 100 characters,
\* returning it unchanged.
C25_PasswordLimits ==
  probe.op = "validatePassword"
    => LET password == probe.given
           r == probe.result
       IN  /\ password = << >> => ~r.valid /\ "required" \in MessageWords(r.error)
           /\ Len(password) < 6 => ~r.valid
           /\ Len(password) > 100 => ~r.valid /\ "100" \in MessageWords(r.error)
           /\ Len(password) >= 6 /\ Len(password) <= 100
                => r.valid /\ r.value = password

\* C26: validateUsername fails with a 'required' error for the empty string,
\* fails with a '3-30' error when the trimmed input has fewer than 3 or more
\* than 30 characters, and otherwise succeeds with the trimmed input and an
\* empty error; it never returns both a value and an error.
C26_UsernameLimits ==
  probe.op = "validateUsername"
    => LET username == probe.given
           r == probe.result
       IN  /\ username = << >> => ~r.valid /\ "required" \in MessageWords(r.error)
           /\ username # << >> /\ (Len(trim(username)) < 3 \/ Len(trim(username)) > 30)
                => ~r.valid /\ "3-30" \in MessageWords(r.error)
           /\ username # << >> /\ Len(trim(username)) >= 3 /\ Len(trim(username)) <= 30
                => r.valid /\ r.value = trim(username) /\ r.error = ""
           /\ r.value = << >> \/ r.error = ""
           /\ \A i \in 1..Len(r.value) :
                (i = 1 \/ i = Len(r.value)) => r.value[i] \notin Whitespace

\* a username of 32 characters was accepted: 30 characters between two
\* whitespace characters
C26_Witness ==
  /\ probe.op = "validateUsername"
  /\ Len(probe.given) = 32
  /\ probe.result.valid
  /\ Len(probe.result.value) = 30

----------------------------------------------------------------------------
(* SearchSpec: searchCatalog called on queries in either case, with and    *)
(* without surrounding whitespace                                          *)

\* the words searched for: parts of ids, names and descriptions, words that
\* nothing contains, and the empty word
SearchWords ==
  { "", "lap", "mouse", "key", "usb-c", "item0", "item014", "hd", "rgb", "2.0",
    "nonexistentitem123", "e", "stand", "wireless", "with", "4k", "pro 15", "95%",
    "laptops", "item016" }

\* std::toupper on every character
toUpper(str) ==
  [i \in 1..Len(str) |->
     IF \E k \in 1..Len(LowerCase) : LowerCase[k] = str[i]
     THEN UpperCase[CHOOSE k \in 1..Len(LowerCase) : LowerCase[k] = str[i]]
     ELSE str[i]]

\* a word with its first character in upper case
Capitalized(str) ==
  IF str = << >> THEN str ELSE toUpper(SubSeq(str, 1, 1)) \o SubSeq(str, 2, Len(str))

SearchQueries ==
  { before \o word \o after :
      before \in {<< >>, <<" ">>, <<"\t", " ">>},
      after \in {<< >>, <<" ", "\n">>},
      word \in UNION { {Chars(w), toUpper(Chars(w)), Capitalized(Chars(w))} : w \in SearchWords } }

\* SearchService::SearchService, and the query that will be searched for
SearchInit ==
  /\ probe \in { [op |-> "new", given |-> query, result |-> << >>] : query \in SearchQueries }
  /\ purchaseHistory = << >>
  /\ inventory = << >>
  /\ balance = 0
  /\ cart = << >>
  /\ cartRet = [op |-> "new", result |-> TRUE]
  /\ adds = << >>
  /\ nOps = 0
  /\ connected = FALSE
  /\ users = << >>
  /\ tokens = << >>
  /\ dbUsers = << >>
  /\ dbOrders = << >>
  /\ dbTokens = << >>
  /\ now = 0
  /\ resp = << >>
  /\ memServer = << >>
  /\ docServer = << >>
  /\ threads = << >>
  /\ call = << >>

SearchCatalog ==
  /\ probe' = [op |-> "searchCatalog", given |-> probe.given,
               result |-> SearchService_searchCatalog(probe.given)]
  /\ UNCHANGED <<purchaseHistory, inventory, balance, cartVars, serverVars, pairVars,
                 serviceVars>>

GetAllCatalogItems ==
  /\ probe' = [op |-> "getAllCatalogItems", given |-> probe.given, result |-> CATALOG]
  /\ UNCHANGED <<purchaseHistory, inventory, balance, cartVars, serverVars, pairVars,
                 serviceVars>>

SearchNext == SearchCatalog \/ GetAllCatalogItems

SearchSpec == SearchInit /\ [][SearchNext]_vars

\* a text contains a word at some position, letter case ignored
ContainsIgnoringCase(text, word) ==
  \E at \in 0..(Len(text) - Len(word)) :
    \A j \in 1..Len(word) : tolower(SubSeq(text, at + j, at + j)) = tolower(word[j])

\* the position of an item in the catalog
CatalogIndex(item) == CHOOSE i \in 1..Len(CATALOG) : CATALOG[i] = item

\* C27: searchCatalog returns no item when the query is empty or only
\* whitespace; otherwise it returns exactly the catalog items whose id, name
\* or description contains the trimmed query, letter case ignored, each item
\* once and in the order of the catalog.
C27_SearchResults ==
  probe.op = "searchCatalog"
    => LET word == trim(probe.given)
           found == probe.result
       IN  IF \A i \in 1..Len(probe.given) : probe.given[i] \in Whitespace
           THEN found = << >>
           ELSE /\ \A k \in 1..Len(found) : \E i \in 1..Len(CATALOG) : found[k] = CATALOG[i]
                /\ \A i \in 1..Len(CATALOG) :
                     (\E k \in 1..Len(found) : found[k] = CATALOG[i])
                       <=> \/ ContainsIgnoringCase(CATALOG[i].id, word)
                           \/ ContainsIgnoringCase(CATALOG[i].name, word)
                           \/ ContainsIgnoringCase(CATALOG[i].description, word)
                /\ \A k, l \in 1..Len(found) :
                     k < l => CatalogIndex(found[k]) < CatalogIndex(found[l])

\* a query in upper case with whitespace around it found several items by
\* their name or description, and not all of the catalog
C27_Witness ==
  /\ probe.op = "searchCatalog"
  /\ probe.given = <<" ", "M", "O", "U", "S", "E", " ", "\n">>
  /\ Len(probe.result) = 2
  /\ probe.result[1].id = "ITEM002"
  /\ probe.result[2].id = "ITEM015"

----------------------------------------------------------------------------
(* ConnectSpec: a MongoDBService from its construction on: connect() may   *)
(* succeed or fail, at any time, and every operation may be called before  *)
(* and after it                                                            *)

\* MongoDBService::MongoDBService : connected(false)
ConnectInit ==
  /\ connected = FALSE
  /\ users = EmptyMap
  /\ tokens = EmptyMap
  /\ dbUsers = << >>
  /\ dbOrders = << >>
  /\ dbTokens = << >>
  /\ now = 0
  /\ resp = << >>
  /\ threads = << >>
  /\ call = [op |-> "new", ok |-> FALSE, empty |-> TRUE]
  /\ memServer = << >>
  /\ docServer = << >>
  /\ cart = << >>
  /\ cartRet = [op |-> "new", result |-> TRUE]
  /\ adds = << >>
  /\ nOps = 0
  /\ purchaseHistory = << >>
  /\ inventory = << >>
  /\ balance = 0
  /\ probe = << >>

\* the arguments of the calls: those of one user that createUser stores,
\* and those of one that it never does
ConnectArgs ==
  { <<sBob, sOtherEmail, to_string(0) \o sUnderscore \o sBob>>,
    <<sAmy, sTestEmail, sNoUser>> }

ConnectUserIds == { to_string(0) \o sUnderscore \o sBob }

ConnectTokens == { MakeToken(sBob, 0) }

\* a call returns: what it returned (ok), whether what it handed back is
\* empty, and the store it leaves
Returns(op, ok, empty, st) ==
  /\ WithinBounds(st)
  /\ Len(st.dbTokens) <= MaxTokens
  /\ connected' = st.connected
  /\ users' = st.users
  /\ tokens' = st.tokens
  /\ dbUsers' = st.dbUsers
  /\ dbOrders' = st.dbOrders
  /\ dbTokens' = st.dbTokens
  /\ call' = [op |-> op, ok |-> ok, empty |-> empty]
  /\ UNCHANGED <<now, resp, threads, cartVars, pairVars, unitVars>>

\* connect(connStr, dbName): connected = true, or false when the driver throws
Connect ==
  \E ok \in BOOLEAN : Returns("connect", ok, TRUE, [Store EXCEPT !.connected = ok])

ConnectCreateUser ==
  \E args \in ConnectArgs :
    LET w == Mongo_createUser(Store, args[1], args[2], sTestpass, args[3])
    IN  /\ args[3] \in ConnectUserIds
        /\ Returns("createUser", w.ok, TRUE, w.st)

ConnectFindUserByUsername ==
  \E args \in ConnectArgs :
    LET r == Mongo_findUserByUsername(Store, args[1])
    IN  Returns("findUserByUsername", r.found, r.user = EmptyUser, Store)

ConnectFindUserByEmail ==
  \E args \in ConnectArgs :
    LET r == Mongo_findUserByEmail(Store, args[2])
    IN  Returns("findUserByEmail", r.found, r.user = EmptyUser, Store)

ConnectFindUserById ==
  \E args \in ConnectArgs :
    LET r == Mongo_findUserById(Store, args[3])
    IN  Returns("findUserById", r.found, r.user = EmptyUser, Store)

ConnectEmailExists ==
  \E args \in ConnectArgs :
    Returns("emailExists", Mongo_emailExists(Store, args[2]), TRUE, Store)

ConnectUpdateUser ==
  \E args \in ConnectArgs :
    LET w == Mongo_updateUser(Store, args[3],
                              User(args[3], args[1], args[2], sTestpass,
                                   << >>, << >>, << >>, << >>))
    IN  Returns("updateUser", w.ok, TRUE, w.st)

ConnectGetCart ==
  \E args \in ConnectArgs :
    LET r == Mongo_getCart(Store, args[3])
    IN  Returns("getCart", r.ok, r.cart = << >>, Store)

ConnectUpdateCart ==
  \E args \in ConnectArgs, items \in ServiceCarts :
    LET w == Mongo_updateCart(Store, args[3], items)
    IN  Returns("updateCart", w.ok, TRUE, w.st)

ConnectClearCart ==
  \E args \in ConnectArgs :
    LET w == Mongo_clearCart(Store, args[3])
    IN  Returns("clearCart", w.ok, TRUE, w.st)

ConnectAddPurchase ==
  \E args \in ConnectArgs, purchases \in ServicePurchases :
    LET w == Mongo_addPurchase(Store, args[3], purchases, MakeOrderId(args[3], now),
                               PurchaseHistory_getTotalSpent(purchases), now)
    IN  Returns("addPurchase", w.ok, TRUE, w.st)

ConnectGetPurchaseHistory ==
  \E args \in ConnectArgs :
    LET r == Mongo_getPurchaseHistory(Store, args[3])
    IN  Returns("getPurchaseHistory", r.ok, r.orders = << >>, Store)

ConnectSaveToken ==
  \E token \in ConnectTokens, userId \in ConnectUserIds :
    LET w == Mongo_saveToken(Store, token, userId, now)
    IN  Returns("saveToken", w.ok, TRUE, w.st)

ConnectGetUserIdFromToken ==
  \E token \in ConnectTokens :
    LET userId == Mongo_getUserIdFromToken(Store, token)
    IN  Returns("getUserIdFromToken", userId # << >>, userId = << >>, Store)

ConnectNext ==
  \/ Connect
  \/ ConnectCreateUser
  \/ ConnectFindUserByUsername
  \/ ConnectFindUserByEmail
  \/ ConnectFindUserById
  \/ ConnectEmailExists
  \/ ConnectUpdateUser
  \/ ConnectGetCart
  \/ ConnectUpdateCart
  \/ ConnectClearCart
  \/ ConnectAddPurchase
  \/ ConnectGetPurchaseHistory
  \/ ConnectSaveToken
  \/ ConnectGetUserIdFromToken

ConnectSpec == ConnectInit /\ [][ConnectNext]_vars

\* C28: a newly constructed MongoDBService is not connected; the connected
\* flag changes only in connect(); a call of any other operation on a
\* service that is not connected returns false or an empty result and
\* leaves the whole store as it was.
C28_NotConnected ==
  /\ ~connected
  /\ [][/\ connected' # connected => call'.op = "connect"
        /\ (~connected /\ call'.op # "connect")
             => ~call'.ok /\ call'.empty /\ StoreNext = Store]_vars

\* findUserById was called for a stored user on a service that is no longer
\* connected, and found nothing
C28_Witness ==
  /\ ~connected
  /\ call.op = "findUserById"
  /\ ~call.ok
  /\ \E i \in 1..Len(dbUsers) : dbUsers[i]._id \in ConnectUserIds

----------------------------------------------------------------------------
(* PurchaseSpec: one PurchaseService and one caller's balance, any         *)
(* sequence of purchaseItem, addItem and initializeInventory calls         *)

\* items in the inventory
MaxInventory == 5

\* the balances the caller starts with, in cents: nothing, one cent short of
\* the mouse, the price of the mouse, and enough for the laptop
StartBalances == {0, 2998, 2999, 100000}

\* the items passed to addItem: a free item, a second item with the id of
\* the mouse, and the monitor back in stock under a new id
AddedItems ==
  { Item("ITEM005", "Sticker", 0, TRUE),
    Item("ITEM002", "Mouse", 1999, TRUE),
    Item("ITEM006", "Monitor", 29999, TRUE) }

\* the ids asked for: those in stock, one out of stock, one added, one unknown
PurchaseItemIds == {"ITEM001", "ITEM002", "ITEM003", "ITEM004", "ITEM005", "ITEM999"}

\* PurchaseService::PurchaseService, and the caller's balance
PurchaseInit ==
  /\ inventory = PurchaseService_initializeInventory
  /\ balance \in StartBalances
  /\ probe = [op |-> "new", itemId |-> "", before |-> balance,
              stock |-> PurchaseService_initializeInventory,
              result |-> PurchaseResult(FALSE, "", 0)]
  /\ purchaseHistory = << >>
  /\ cart = << >>
  /\ cartRet = [op |-> "new", result |-> TRUE]
  /\ adds = << >>
  /\ nOps = 0
  /\ connected = FALSE
  /\ users = << >>
  /\ tokens = << >>
  /\ dbUsers = << >>
  /\ dbOrders = << >>
  /\ dbTokens = << >>
  /\ now = 0
  /\ resp = << >>
  /\ memServer = << >>
  /\ docServer = << >>
  /\ threads = << >>
  /\ call = << >>

PurchaseItem ==
  \E itemId \in PurchaseItemIds :
    LET r == PurchaseService_purchaseItem(inventory, itemId, balance)
    IN  /\ balance' = r.userBalance
        /\ inventory' = r.inventory
        /\ probe' = [op |-> "purchaseItem", itemId |-> itemId, before |-> balance,
                     stock |-> inventory, result |-> r.result]
        /\ UNCHANGED <<purchaseHistory, cartVars, serverVars, pairVars, serviceVars>>

PurchaseAddItem ==
  \E item \in AddedItems :
    /\ Len(inventory) < MaxInventory
    /\ inventory' = PurchaseService_addItem(inventory, item)
    /\ probe' = [op |-> "addItem", itemId |-> item.id, before |-> balance,
                 stock |-> inventory, result |-> PurchaseResult(TRUE, "", balance)]
    /\ UNCHANGED <<balance, purchaseHistory, cartVars, serverVars, pairVars, serviceVars>>

PurchaseInitializeInventory ==
  /\ inventory' = PurchaseService_initializeInventory
  /\ probe' = [op |-> "initializeInventory", itemId |-> "", before |-> balance,
               stock |-> inventory, result |-> PurchaseResult(TRUE, "", balance)]
  /\ UNCHANGED <<balance, purchaseHistory, cartVars, serverVars, pairVars, serviceVars>>

PurchaseNext == PurchaseItem \/ PurchaseAddItem \/ PurchaseInitializeInventory

PurchaseSpec == PurchaseInit /\ [][PurchaseNext]_vars

\* why the claim has a purchase fail, "" when it has it succeed: the item is
\* not in the inventory, else it is out of stock, else the balance is below
\* its price
PurchaseFailure(stock, itemId, funds) ==
  IF \A i \in 1..Len(stock) : stock[i].id # itemId THEN "Item not found"
  ELSE LET i == PurchaseService_findItem(stock, itemId)
       IN  IF ~stock[i].available THEN "Item out of stock"
           ELSE IF funds < stock[i].price THEN "Insufficient funds"
           ELSE ""

\* C29: purchaseItem fails when the item is not found, is out of stock or
\* costs more than the balance, with the message of the first of these that
\* applies, and then leaves the balance of the caller as it was; otherwise it
\* succeeds and reduces the balance by exactly the price of the item; it
\* never changes the inventory; and the balance, which starts non-negative,
\* is never negative.
C29_BalanceSafety ==
  /\ balance >= 0
  /\ probe.op = "purchaseItem"
       => LET r == probe.result
              failure == PurchaseFailure(probe.stock, probe.itemId, probe.before)
          IN  /\ r.success <=> failure = ""
              /\ ~r.success => r.message = failure /\ balance = probe.before
              /\ r.success
                   => balance = probe.before -
                        probe.stock[PurchaseService_findItem(probe.stock, probe.itemId)].price
              /\ r.remainingBalance = balance
              /\ inventory = probe.stock

\* a purchase failed for insufficient funds after an earlier purchase had
\* reduced the balance
C29_Witness ==
  /\ probe.op = "purchaseItem"
  /\ ~probe.result.success
  /\ probe.result.message = "Insufficient funds"
  /\ balance \notin StartBalances
  /\ balance > 0

----------------------------------------------------------------------------
(* LoginSpec: LoginService::authenticate called on known and unknown       *)
(* usernames and passwords                                                 *)

\* the usernames tried: none, the three known ones, one in another case, one
\* with a space after it, unknown ones
LoginUsernames ==
  { << >>, sValiduser, sAdmin, sTestuser, Capitalized(sAdmin), sAdmin \o <<" ">>,
    sBob, sAmy, sTestEmail, <<" ">> }

\* the passwords tried: none, the three known ones, variants, unknown ones
LoginPasswords ==
  { << >>, sValidpass, sAdmin123, sTestpass, Capitalized(sAdmin123), sTestpass \o <<" ">>,
    sAbc, sAdmin, <<" ">>, sValiduser }

\* LoginService::LoginService, and the credentials that will be tried
LoginInit ==
  /\ probe \in { [op |-> "new", username |-> u, password |-> p,
                   result |-> LoginResult(FALSE, "", << >>)] :
                    u \in LoginUsernames, p \in LoginPasswords }
  /\ purchaseHistory = << >>
  /\ inventory = << >>
  /\ balance = 0
  /\ cart = << >>
  /\ cartRet = [op |-> "new", result |-> TRUE]
  /\ adds = << >>
  /\ nOps = 0
  /\ connected = FALSE
  /\ users = << >>
  /\ tokens = << >>
  /\ dbUsers = << >>
  /\ dbOrders = << >>
  /\ dbTokens = << >>
  /\ now = 0
  /\ resp = << >>
  /\ memServer = << >>
  /\ docServer = << >>
  /\ threads = << >>
  /\ call = << >>

\* authenticate(username, password)
Authenticate ==
  /\ probe' = [probe EXCEPT !.op = "authenticate",
                            !.result = LoginService_authenticate(probe.username,
                                                                 probe.password)]
  /\ UNCHANGED <<purchaseHistory, inventory, balance, cartVars, serverVars, pairVars,
                 serviceVars>>

LoginNext == Authenticate

LoginSpec == LoginInit /\ [][LoginNext]_vars

\* the (username, password) pairs of the known users
KnownPairs == { <<validUsers[i].username, validUsers[i].password>> : i \in 1..Len(validUsers) }

\* C30: authenticate succeeds exactly when the (username, password) pair is
\* that of a known user, and then returns that username; an empty username
\* gives 'Username cannot be empty', also when the password is empty too; an
\* empty password with a username gives 'Password cannot be empty'; an
\* unknown username and a wrong password give the same message, 'Invalid
\* username or password'.
C30_Authenticate ==
  probe.op = "authenticate"
    => LET r == probe.result
           known == <<probe.username, probe.password>> \in KnownPairs
       IN  /\ r.success <=> known
           /\ r.success => r.username = probe.username /\ r.message = "Login successful"
           /\ probe.username = << >> => r.message = "Username cannot be empty"
           /\ probe.username # << >> /\ probe.password = << >>
                => r.message = "Password cannot be empty"
           /\ probe.username # << >> /\ probe.password # << >> /\ ~known
                => r.message = "Invalid username or password"
           /\ ~r.success => r.username = << >>

\* a known username was tried with the password of another known user and
\* was refused
C30_Witness ==
  /\ probe.op = "authenticate"
  /\ probe.username = sAdmin
  /\ probe.password = sTestpass
  /\ ~probe.result.success
  /\ probe.result.message = "Invalid username or password"

----------------------------------------------------------------------------
(* Claims about login and the profile, under AccountSpec                   *)

\* C31: a login succeeds and issues a token that resolves to a user id only
\* if the password of the request equals the password of the user record
\* with that id, after any sequence of signups, a signup with a username of
\* LoginService's validUsers included.
C31_LoginChecksStoredPassword ==
  \A body \in LoginBodies :
    LET r == handleLogin(Store, body, now)
        userId == getUserIdFromToken(r.st, r.out.data.token)
    IN  (r.out.success /\ userId # << >> /\ LookupUser(r.st, userId).found)
          => LookupUser(r.st, userId).user.password = body.password

\* C32: without MongoDB, after a successful profile update that changes the
\* username, the users map holds exactly one record with the id of the user,
\* its key is the new username, and the old username is no key of the map.
C32_RenameMovesRecord ==
  \A userId \in Shoppers(Store), body \in ProfileBodies :
    LET old == LookupUser(Store, userId).user.username
        r == handleUpdateProfile(Store, body, userId, now)
    IN  (~connected /\ r.out.success /\ r.out.data.user.username # old)
          => /\ KeysWithId(r.st, userId) = {r.out.data.user.username}
             /\ old \notin DOMAIN r.st.users

\* C33: in every reachable state every token of the token store resolves to
\* the id of a user record of the active store, and GET /api/me with an
\* issued token does not answer "User not found".
C33_TokensHaveUsers ==
  \A tok \in IssuedTokens(Store) :
    LET userId == getUserIdFromToken(Store, tok)
    IN  userId # << >>
          => /\ LookupUser(Store, userId).found
             /\ Route_me(Store, sBearer \o tok).out.message # "User not found"

\* the profile updates of the claim: those of AccountSpec, and four that
\* pair a valid field with a short password, a taken username or a taken email
ClaimProfileBodies ==
  ProfileBodies \cup
    { ProfileBody(sAmy, << >>, sAbc, << >>, << >>),
      ProfileBody(sBob, << >>, << >>, sAl, << >>),
      ProfileBody(sTestuser, << >>, << >>, sAl, << >>),
      ProfileBody(<< >>, sOtherEmail, << >>, sAl, << >>),
      ProfileBody(<< >>, << >>, sTestpass, << >>, << >>) }

\* the user records of the active store, as the handlers load them
AccountRecords(st) ==
  IF st.connected THEN {LoadUser(st.dbUsers[i]) : i \in 1..Len(st.dbUsers)}
  ELSE {st.users[k] : k \in DOMAIN st.users}

\* a supplied field fails its validation
ProfileFieldFails(body) ==
  \/ body.username # << >> /\ ~validateUsername(body.username).valid
  \/ body.email # << >> /\ ~validateEmail(body.email).valid
  \/ body.password # << >> /\ ~validatePassword(body.password).valid
  \/ /\ body.fullName # << >> \/ body.bio # << >>
     /\ ~validateProfile(body.fullName, body.bio).valid

\* a supplied username or email is that of another user
ProfileCollides(st, body, userId) ==
  \E u \in AccountRecords(st) :
    /\ u.id # userId
    /\ \/ body.username # << >> /\ u.username = trim(body.username)
       \/ body.email # << >> /\ NormalizedEmail(u.email) = NormalizedEmail(body.email)

\* every supplied field has the value the stored record has
ProfileChangesNothing(st, body, userId) ==
  LET user == LookupUser(st, userId).user
  IN  /\ body.username # << >> => trim(body.username) = user.username
      /\ body.email # << >> => NormalizedEmail(body.email) = user.email
      /\ body.password # << >> => hashPassword(body.password) = user.password
      /\ body.fullName # << >> => body.fullName = user.fullName
      /\ body.bio # << >> => body.bio = user.bio

\* C34: a profile update in which a supplied field fails validation or is
\* the username or email of another user, or which changes no field, leaves
\* the stored user records as they were and issues no new token, whatever
\* its other fields are.
C34_ProfileAllOrNothing ==
  \A userId \in Shoppers(Store), body \in ClaimProfileBodies :
    LET r == handleUpdateProfile(Store, body, userId, now)
    IN  (/\ LookupUser(Store, userId).found
         /\ \/ ProfileFieldFails(body)
            \/ ProfileCollides(Store, body, userId)
            \/ ProfileChangesNothing(Store, body, userId))
          => /\ AccountRecords(r.st) = AccountRecords(Store)
             /\ IssuedTokens(r.st) = IssuedTokens(Store)

----------------------------------------------------------------------------
(* A claim about the quantities of a Cart, under CartSpec                  *)

\* C35: in every state reachable from an empty Cart by addItem,
\* updateQuantity, removeItem and clear, every entry has a quantity of at
\* least 1, the quantities being unsigned 32-bit integers.
C35_QuantitiesAtLeastOne ==
  \A i \in 1..Len(cart) : ~IsZero32(cart[i].quantity)

----------------------------------------------------------------------------
(* GET /api/catalog and POST /api/cart, under ShopSpec                     *)

\* PurchaseService::getAvailableItems
PurchaseService_getAvailableItems(items) ==
  SelectSeq(items, LAMBDA item : item.available)

\* Server::handleGetCatalog: the purchaseService of Server.cpp is
\* constructed with initializeInventory and no handler changes it
handleGetCatalog ==
  LET items == PurchaseService_getAvailableItems(PurchaseService_initializeInventory)
  IN  Response(TRUE, "",
               [n \in 1..Len(items) |->
                  [id |-> items[n].id, name |-> items[n].name,
                   price |-> items[n].price, description |-> ""]])

\* the product ids GET /api/catalog lists
ListedIds == {handleGetCatalog.data[n].id : n \in 1..Len(handleGetCatalog.data)}

\* the product ids of the requests: those of both lists, and one of neither
CatalogRequestIds ==
  {CATALOG[n].id : n \in 1..Len(CATALOG)} \cup
  {PurchaseService_initializeInventory[n].id :
     n \in 1..Len(PurchaseService_initializeInventory)} \cup {"ITEM999"}

\* C36: every product POST /cart accepts is listed by GET /catalog, and
\* every product GET /catalog lists can be added to the cart.
C36_CatalogMatchesCart ==
  \A userId \in Shoppers(Store), productId \in CatalogRequestIds :
    LookupUser(Store, userId).found
      => (handleAddToCart(Store, CartBody(productId, << >>), userId).out.success
            <=> productId \in ListedIds)

====
